---- MODULE Spec2Model ----
(***************************************************************************)
(* A model of the wvdsh command-line tool: the `build push` pipeline       *)
(* (builds.rs), the staging of auxiliary files (file_staging.rs), the      *)
(* bounded-concurrency uploader (uploader.rs) and the decoding of API      *)
(* error bodies (api_client.rs, builds.rs).                                *)
(***************************************************************************)
EXTENDS Integers, Sequences, FiniteSets, TLC

VARIABLES
    input,          \* what the run is given: config document, token, directories
    pc,             \* the statement handle_build_push is at
    ret,            \* what handle_build_push returned, once it has
    dir,            \* the upload directory: file name -> content, or Absent
    staging,        \* the FileStaging value: config_dest, entrypoint_dest
    requests,       \* the API requests issued so far, in order
    manifest,       \* Vec<ManifestEntry> built by build_manifest
    next_entry,     \* position of the manifest iterator feeding buffer_unordered
    xfer,           \* per manifest entry: the state of its upload_file future
    uploaded_bytes, \* the shared AtomicU64
    pb_position,    \* the progress bar's position
    call,           \* an API exchange whose error body is being decoded
    surfaced,       \* the text that exchange surfaced to the caller
    op,             \* a function of the program under study, with its argument
    res,            \* what that function returned
    auth,           \* the credentials file, its directory, and the calls made
    proc            \* the wvdsh process: main's position, command, exit status

vars == << input, pc, ret, dir, staging, requests, manifest, next_entry, xfer,
           uploaded_bytes, pb_position, call, surfaced, op, res, auth, proc >>

pushVars == << input, pc, ret, dir, staging, requests, manifest, next_entry,
               xfer, uploaded_bytes, pb_position >>

apiVars == << call, surfaced >>

\* The state of the commands other than `build push`.
cmdVars == << op, res, auth, proc >>

-----------------------------------------------------------------------------
(* Bounds of the model. *)

\* Build artifacts the upload directory may hold besides the staged files.
MaxArtifacts == 2

\* with_concurrency is explored for every argument in 0..MaxConcurrencyArg.
MaxConcurrencyArg == 2

-----------------------------------------------------------------------------
(* JSON texts and serde deserialisation.                                   *)

None == "<none>"

\* The response bodies explored, as they are on the wire.
BodyNestedCodeMessage ==
    "{\"error\":\"{\\\"code\\\":\\\"QUOTA\\\",\\\"message\\\":\\\"quota exceeded\\\"}\"}"
BodyNestedMessageOnly ==
    "{\"error\":\"{\\\"message\\\":\\\"quota exceeded\\\"}\"}"
BodyNestedCodeOnly ==
    "{\"error\":\"{\\\"code\\\":\\\"QUOTA\\\"}\"}"
BodySimple ==
    "{\"error\":\"simple message\"}"
BodyInnerNumber ==
    "{\"error\":\"42\"}"
BodyNoEnvelope ==
    "{\"message\":\"not wrapped\"}"
BodyNotJson ==
    "Internal Server Error"

Bodies ==
    { BodyNestedCodeMessage, BodyNestedMessageOnly, BodyNestedCodeOnly,
      BodySimple, BodyInnerNumber, BodyNoEnvelope, BodyNotJson }

\* The strings held by the "error" field of the envelopes above.
InnerCodeMessage == "{\"code\":\"QUOTA\",\"message\":\"quota exceeded\"}"
InnerMessageOnly == "{\"message\":\"quota exceeded\"}"
InnerCodeOnly == "{\"code\":\"QUOTA\"}"

NotJson == [valid |-> FALSE, object |-> FALSE, str |-> << >>]
JsonObject(strFields) == [valid |-> TRUE, object |-> TRUE, str |-> strFields]
JsonScalar == [valid |-> TRUE, object |-> FALSE, str |-> << >>]

\* serde_json's reading of a text as a JSON document: whether it is JSON,
\* whether it is an object, and the object's string-valued fields.
ParseJson(text) ==
    CASE text = BodyNestedCodeMessage -> JsonObject([error |-> InnerCodeMessage])
      [] text = BodyNestedMessageOnly -> JsonObject([error |-> InnerMessageOnly])
      [] text = BodyNestedCodeOnly -> JsonObject([error |-> InnerCodeOnly])
      [] text = BodySimple -> JsonObject([error |-> "simple message"])
      [] text = BodyInnerNumber -> JsonObject([error |-> "42"])
      [] text = BodyNoEnvelope -> JsonObject([message |-> "not wrapped"])
      [] text = InnerCodeMessage ->
            JsonObject([code |-> "QUOTA", message |-> "quota exceeded"])
      [] text = InnerMessageOnly -> JsonObject([message |-> "quota exceeded"])
      [] text = InnerCodeOnly -> JsonObject([code |-> "QUOTA"])
      [] text = "42" -> JsonScalar
      [] OTHER -> NotJson

\* A derived Deserialize of a struct whose fields are all `String`: every
\* required field must be present with a string value; other fields are ignored.
FromStr(text, required) ==
    LET doc == ParseJson(text)
    IN  IF doc.valid /\ doc.object /\ required \subseteq DOMAIN doc.str
        THEN [ok |-> TRUE, v |-> doc.str]
        ELSE [ok |-> FALSE, v |-> << >>]

\* struct ApiErrorResponse { error: String }
ApiErrorResponse == {"error"}
\* builds.rs: struct ApiError { code: String, message: String }
ApiError == {"code", "message"}
\* api_client.rs: struct NestedError { message: String }
NestedError == {"message"}

Statuses == {200, 201, 403, 500}

\* reqwest's StatusCode::is_success
is_success(status) == status >= 200 /\ status <= 299

Ok == [ok |-> TRUE, msg |-> ""]
Err(m) == [ok |-> FALSE, msg |-> m]

\* ApiClient::handle_response, up to the decoding of a successful body.
handle_response(status, error_text) ==
    IF ~is_success(status)
    THEN LET api_error == FromStr(error_text, ApiErrorResponse)
         IN  IF api_error.ok
             THEN LET nested == FromStr(api_error.v.error, NestedError)
                  IN  IF nested.ok
                      THEN Err(nested.v.message)
                      ELSE Err(api_error.v.error)
             ELSE Err("API request failed: " \o error_text)
    ELSE Ok

\* The status check shared by get_temp_credentials and notify_upload_complete.
builds_error(status, error_text) ==
    IF ~is_success(status)
    THEN LET api_error_response == FromStr(error_text, ApiErrorResponse)
             api_error ==
                 IF api_error_response.ok
                 THEN FromStr(api_error_response.v.error, ApiError)
                 ELSE [ok |-> FALSE, v |-> << >>]
         IN  IF api_error.ok
             THEN Err(api_error.v.message)
             ELSE Err("API request failed: " \o error_text)
    ELSE Ok

get_temp_credentials_response(status, error_text) ==
    builds_error(status, error_text)

notify_upload_complete_response(status, error_text) ==
    builds_error(status, error_text)

ApiClientSites == {"ApiClient::get", "ApiClient::post", "ApiClient::put",
                   "ApiClient::delete"}
BuildsSites == {"create-temp-r2-creds", "upload-completed"}
Sites == ApiClientSites \cup BuildsSites

\* What a call site surfaces for a response.
SiteResult(site, status, error_text) ==
    CASE site \in ApiClientSites -> handle_response(status, error_text)
      [] site = "create-temp-r2-creds" ->
            get_temp_credentials_response(status, error_text)
      [] site = "upload-completed" ->
            notify_upload_complete_response(status, error_text)

-----------------------------------------------------------------------------
(* The project, the file system and file staging.                          *)

Absent == "<absent>"

CONFIG_FILE == "wavedash.toml"

\* [custom].entrypoint of the configs explored.
ENTRYPOINT == "index.html"

ArtifactName(i) ==
    CASE i = 1 -> "game.wasm"
      [] i = 2 -> "game.pck"
      [] i = 3 -> "game.js"
      [] OTHER -> "game.data"

Artifacts == { ArtifactName(i) : i \in 1..MaxArtifacts }

Names == {CONFIG_FILE, ENTRYPOINT} \cup Artifacts

\* The order in which the directory walk meets the files.
WalkOrder ==
    << CONFIG_FILE, ENTRYPOINT >> \o [i \in 1..MaxArtifacts |-> ArtifactName(i)]

\* File contents: the project's config text, the entrypoint source, and
\* files of the upload directory's own.
ConfigText == "config"
EntrySource == "entry-source"
OwnToml == "own wavedash.toml"
OwnEntry == "own index.html"
ArtifactData == "artifact"

WRITE_BUFFER_SIZE == 8 * 1024 * 1024

\* metadata().len() of a file with the given content.
SizeOf(content) ==
    CASE content = ConfigText -> 120
      [] content = EntrySource -> 0
      [] content = OwnToml -> 40
      [] content = OwnEntry -> 300
      [] content = ArtifactData -> WRITE_BUFFER_SIZE + 1
      [] OTHER -> 0

Sections == {"godot", "unity", "custom"}

\* WavedashConfig::engine_type
engine_type(sections) ==
    CASE sections = {"godot"} -> [ok |-> TRUE, kind |-> "godot"]
      [] sections = {"unity"} -> [ok |-> TRUE, kind |-> "unity"]
      [] sections = {"custom"} -> [ok |-> TRUE, kind |-> "custom"]
      [] OTHER -> [ok |-> FALSE, kind |-> None]

\* WavedashConfig::entrypoint
entrypoint(sections) == IF "custom" \in sections THEN ENTRYPOINT ELSE None

\* An upload directory holding its own files under the two staged names or
\* not, and the first k build artifacts.
DirWith(toml, entry, k) ==
    [n \in Names |->
        CASE n = CONFIG_FILE -> toml
          [] n = ENTRYPOINT -> entry
          [] OTHER -> IF \E i \in 1..k : n = ArtifactName(i)
                      THEN ArtifactData ELSE Absent]

\* The runs that get as far as fetching credentials. in_place: the config
\* file lives in the upload directory itself (upload_dir = "."), so that the
\* staged names resolve to the source files.
PushInputs ==
    { [ readable |-> TRUE, token |-> "api-key", upload_dir |-> "dir",
        sections |-> s, in_place |-> ip, entry_source |-> es,
        concurrency_arg |-> c, dir0 |-> DirWith(t, e, k) ] :
        s \in {{"godot"}, {"unity"}, {"custom"}},
        ip \in BOOLEAN,
        es \in {EntrySource, Absent},
        c \in 0..MaxConcurrencyArg,
        t \in {Absent, OwnToml, ConfigText},
        e \in {Absent, OwnEntry, EntrySource},
        k \in 0..MaxArtifacts }

\* A run is possible when the file system it describes is: in place, the
\* directory's wavedash.toml is the config file and its entrypoint file is the
\* entrypoint source; otherwise the directory's files are its own.
Possible(i) ==
    /\ i.in_place =>
          /\ i.dir0[CONFIG_FILE] = ConfigText
          /\ "custom" \in i.sections => i.dir0[ENTRYPOINT] = i.entry_source
          /\ "custom" \notin i.sections => i.dir0[ENTRYPOINT] # EntrySource
    /\ ~i.in_place =>
          /\ i.dir0[CONFIG_FILE] # ConfigText
          /\ i.dir0[ENTRYPOINT] # EntrySource
    /\ "custom" \notin i.sections => i.entry_source = Absent

Canonical ==
    [ readable |-> TRUE, token |-> "api-key", upload_dir |-> "dir",
      sections |-> {"godot"}, in_place |-> FALSE, entry_source |-> Absent,
      concurrency_arg |-> 0, dir0 |-> DirWith(Absent, Absent, 1) ]

\* The runs that stop before credentials are fetched.
EarlyInputs ==
    { [Canonical EXCEPT !.readable = FALSE],
      [Canonical EXCEPT !.token = None],
      [Canonical EXCEPT !.upload_dir = "missing"],
      [Canonical EXCEPT !.upload_dir = "file"] }
    \cup { [Canonical EXCEPT !.sections = s] : s \in SUBSET Sections }

Inputs == { i \in PushInputs : Possible(i) } \cup EarlyInputs

\* FileStaging { config_dest, entrypoint_dest }
NoStaging == [config_dest |-> None, entrypoint_dest |-> None]

\* std::fs::remove_file on a file of the upload directory.
remove_file(d, name) == [d EXCEPT ![name] = Absent]

\* The block of FileStaging::prepare that stages `name` from a source file:
\* source.canonicalize()?, the comparison with dest.canonicalize(), the
\* removal of an existing dest, and the copy. remove_file is taken to succeed
\* (its result is discarded by the code).
stage_file(d, name, source, same_file, copy_ok, what) ==
    IF source = Absent
    THEN [ok |-> FALSE, dir |-> d, dest |-> None,
          error |-> "No such file or directory"]
    ELSE IF ~same_file
         THEN LET d1 == IF d[name] # Absent THEN remove_file(d, name) ELSE d
              IN  IF copy_ok
                  THEN [ok |-> TRUE, dir |-> [d1 EXCEPT ![name] = source],
                        dest |-> name, error |-> None]
                  ELSE [ok |-> FALSE, dir |-> d1, dest |-> None,
                        error |-> "Failed to copy " \o what \o " to upload dir"]
         ELSE [ok |-> TRUE, dir |-> d, dest |-> None, error |-> None]

\* FileStaging::prepare
prepare(d, inp, cfg_copy_ok, entry_copy_ok) ==
    LET c == stage_file(d, CONFIG_FILE, ConfigText, inp.in_place, cfg_copy_ok,
                        "config")
    IN  IF ~c.ok
        THEN [ok |-> FALSE, dir |-> c.dir, staging |-> NoStaging,
              error |-> c.error]
        ELSE IF entrypoint(inp.sections) # None
             THEN LET e == stage_file(c.dir, entrypoint(inp.sections),
                                      inp.entry_source, inp.in_place,
                                      entry_copy_ok, "entrypoint")
                  IN  [ok |-> e.ok, dir |-> e.dir,
                       staging |-> IF e.ok
                                   THEN [config_dest |-> c.dest,
                                         entrypoint_dest |-> e.dest]
                                   ELSE NoStaging,
                       error |-> e.error]
             ELSE [ok |-> TRUE, dir |-> c.dir,
                   staging |-> [config_dest |-> c.dest,
                                entrypoint_dest |-> None],
                   error |-> None]

\* FileStaging::cleanup
cleanup(d, st) ==
    LET d1 == IF st.config_dest # None
              THEN remove_file(d, st.config_dest) ELSE d
    IN  IF st.entrypoint_dest # None
        THEN remove_file(d1, st.entrypoint_dest) ELSE d1

-----------------------------------------------------------------------------
(* The uploader.                                                           *)

DEFAULT_CONCURRENCY == 10

\* with_concurrency without its `concurrency > 0` test
with_concurrency_Unchecked(concurrency, arg) == arg

\* R2Uploader::with_concurrency, on the concurrency field
with_concurrency(concurrency, arg) == IF arg > 0 THEN arg ELSE concurrency

Max(a, b) == IF a >= b THEN a ELSE b
Min(a, b) == IF a <= b THEN a ELSE b

\* The `concurrency` upload_directory hands to buffer_unordered. The uploader
\* is R2Uploader::new's, with with_concurrency applied for arguments above 0.
Concurrency ==
    Max(with_concurrency(DEFAULT_CONCURRENCY, input.concurrency_arg), 1)

\* build_manifest: one entry per regular file, in walk order, with its size.
build_manifest(d) ==
    LET found == SelectSeq(WalkOrder, LAMBDA n : d[n] # Absent)
    IN  [i \in 1..Len(found) |->
            [name |-> found[i], size |-> SizeOf(d[found[i]])]]

RECURSIVE SumSizes(_, _)
SumSizes(m, n) == IF n = 0 THEN 0 ELSE m[n].size + SumSizes(m, n - 1)

\* total_bytes as build_manifest accumulates it
total_bytes(m) == SumSizes(m, Len(m))

\* The state of one entry's future: still in the iterator ("pending"), pushed
\* into the in-progress queue and not polled yet ("queued"), reader and writer
\* open with `written` bytes handed to the writer ("writing"), writer closed
\* ("closed"), failed with `error`, or dropped with the stream ("dropped").
\* starts counts how often upload_file was entered for the entry.
NewTransfer == [phase |-> "pending", written |-> 0, starts |-> 0, error |-> None]

InProgress(x) == { i \in DOMAIN x : x[i].phase \in {"queued", "writing"} }
InFlight(x) == { i \in DOMAIN x : x[i].phase = "writing" }

\* The loop condition written `<=`: one future too many is pulled.
Room_OffByOne(len, max) == IF len <= max THEN max - len + 1 ELSE 0

\* BufferUnordered::poll_next's loop condition, as the number of futures it
\* may still pull: `while in_progress_queue.len() < max`.
Room(len, max) == IF len < max THEN max - len ELSE 0

\* The filling loop of BufferUnordered::poll_next: pull entries from the
\* manifest iterator into the queue while there is room.
buffer_fill(x, next, max) ==
    LET n == Min(Len(x) - next, Room(Cardinality(InProgress(x)), max))
    IN  [xfer |-> [i \in DOMAIN x |->
                      IF i > next /\ i <= next + n
                      THEN [x[i] EXCEPT !.phase = "queued"]
                      ELSE x[i]],
         next |-> next + n]

\* One poll of upload_file's future that does not fail: open the reader and
\* the writer; copy the next chunk of at most WRITE_BUFFER_SIZE bytes; or, at
\* end of file, close the writer.
upload_file_poll(entry, t) ==
    CASE t.phase = "queued" ->
            [t EXCEPT !.phase = "writing", !.starts = @ + 1]
      [] t.phase = "writing" /\ t.written < entry.size ->
            [t EXCEPT !.written =
                        @ + Min(entry.size - @, WRITE_BUFFER_SIZE)]
      [] t.phase = "writing" /\ t.written >= entry.size ->
            [t EXCEPT !.phase = "closed"]
      [] OTHER -> t

\* The context upload_file attaches to the error of the step that t is at;
\* io tells whether the local file or the remote writer failed.
upload_file_error(entry, t, io) ==
    CASE t.phase = "queued" /\ io = "local" -> "Failed to open " \o entry.name
      [] t.phase = "queued" -> "Failed to create writer for " \o entry.name
      [] io = "local" -> "Failed to read " \o entry.name
      [] t.written < entry.size -> "Failed to write " \o entry.name
      [] OTHER -> "Failed to finalize " \o entry.name

\* The stream taken to have ended as soon as the iterator is exhausted.
stream_done_IteratorOnly(x, next) == next = Len(x)

\* Whether the buffered stream has ended: the iterator is exhausted and the
\* in-progress queue is empty.
stream_done(x, next) == next = Len(x) /\ InProgress(x) = {}

-----------------------------------------------------------------------------
(* API responses met by the push.                                          *)

Pending == [ok |-> FALSE, msg |-> "<pending>"]

ErrorResponses ==
    { [kind |-> "http", status |-> s, body |-> b] :
        s \in { t \in Statuses : ~is_success(t) }, b \in Bodies }

Transport == [kind |-> "transport", status |-> 0, body |-> ""]

CredsResponses ==
    ErrorResponses
    \cup { Transport,
           [kind |-> "http", status |-> 200, body |-> "<credentials>"],
           [kind |-> "http", status |-> 200, body |-> BodyNotJson] }

NotifyResponses ==
    ErrorResponses
    \cup { Transport } 
    \cup { [kind |-> "http", status |-> s, body |-> ""] :
             s \in { t \in Statuses : is_success(t) } }

\* get_temp_credentials, from the response on
get_temp_credentials(r) ==
    IF r.kind = "transport"
    THEN Err("error sending request")
    ELSE IF ~is_success(r.status)
         THEN get_temp_credentials_response(r.status, r.body)
         ELSE IF r.body = "<credentials>"
              THEN Ok
              ELSE Err("error decoding response body")

\* notify_upload_complete, from the response on
notify_upload_complete(r) ==
    IF r.kind = "transport"
    THEN Err("error sending request")
    ELSE notify_upload_complete_response(r.status, r.body)

-----------------------------------------------------------------------------
(* handle_build_push, step by step.                                        *)

NoCall == [site |-> None, status |-> 0, body |-> ""]

\* No other command or function is under study.
NoOp == [name |-> None]
NoAuth == [calls |-> << >>]
NoProc == [pc |-> None]

CmdIdle ==
    /\ op = NoOp
    /\ res = Pending
    /\ auth = NoAuth
    /\ proc = NoProc

Init ==
    /\ input \in Inputs
    /\ pc = "LoadConfig"
    /\ ret = Pending
    /\ dir = input.dir0
    /\ staging = NoStaging
    /\ requests = << >>
    /\ manifest = << >>
    /\ next_entry = 0
    /\ xfer = << >>
    /\ uploaded_bytes = 0
    /\ pb_position = 0
    /\ call = NoCall
    /\ surfaced = Pending
    /\ CmdIdle

\* `return Err(..)` / `?` out of handle_build_push
Return(result) ==
    /\ pc' = "Done"
    /\ ret' = result

\* WavedashConfig::load(&config_path)?
LoadConfig ==
    /\ pc = "LoadConfig"
    /\ IF input.readable
       THEN pc' = "Authenticate" /\ ret' = ret
       ELSE Return(Err("Failed to read config file"))
    /\ UNCHANGED << input, dir, staging, requests, manifest, next_entry, xfer,
                    uploaded_bytes, pb_position, call, surfaced, cmdVars >>

\* auth_manager.get_api_key().ok_or_else(..)?
Authenticate ==
    /\ pc = "Authenticate"
    /\ IF input.token # None
       THEN pc' = "ResolvePaths" /\ ret' = ret
       ELSE Return(Err("Not authenticated. Run 'wvdsh auth login' first."))
    /\ UNCHANGED << input, dir, staging, requests, manifest, next_entry, xfer,
                    uploaded_bytes, pb_position, call, surfaced, cmdVars >>

\* The checks on upload_dir left out: the push goes on whatever is there.
ResolvePaths_Unchecked ==
    /\ pc = "ResolvePaths"
    /\ pc' = "FetchCredentials"
    /\ ret' = ret
    /\ UNCHANGED << input, dir, staging, requests, manifest, next_entry, xfer,
                    uploaded_bytes, pb_position, call, surfaced, cmdVars >>

\* The checks that upload_dir exists and is a directory.
ResolvePaths ==
    /\ pc = "ResolvePaths"
    /\ CASE input.upload_dir = "missing" ->
               Return(Err("Source directory does not exist"))
         [] input.upload_dir = "file" ->
               Return(Err("Source must be a directory"))
         [] OTHER -> pc' = "FetchCredentials" /\ ret' = ret
    /\ UNCHANGED << input, dir, staging, requests, manifest, next_entry, xfer,
                    uploaded_bytes, pb_position, call, surfaced, cmdVars >>

\* engine_type()? and get_temp_credentials(..).await?
FetchCredentials ==
    /\ pc = "FetchCredentials"
    /\ IF ~engine_type(input.sections).ok
       THEN /\ Return(Err("Config must have exactly one of [godot], [unity], or [custom] sections"))
            /\ requests' = requests
       ELSE \E r \in CredsResponses :
               /\ requests' = Append(requests, "create-temp-r2-creds")
               /\ IF get_temp_credentials(r).ok
                  THEN pc' = "Stage" /\ ret' = ret
                  ELSE Return(get_temp_credentials(r))
    /\ UNCHANGED << input, dir, staging, manifest, next_entry, xfer,
                    uploaded_bytes, pb_position, call, surfaced, cmdVars >>

\* FileStaging::prepare(..)?
Stage ==
    /\ pc = "Stage"
    /\ \E cfg_copy_ok \in BOOLEAN, entry_copy_ok \in BOOLEAN :
          LET p == prepare(dir, input, cfg_copy_ok, entry_copy_ok)
          IN  /\ dir' = p.dir
              /\ staging' = p.staging
              /\ IF p.ok
                 THEN pc' = "Upload" /\ ret' = ret
                 ELSE Return(Err(p.error))
    /\ UNCHANGED << input, requests, manifest, next_entry, xfer,
                    uploaded_bytes, pb_position, call, surfaced, cmdVars >>

\* upload_directory up to the stream: build the manifest, refuse an empty one,
\* create the progress bar and the byte counter.
UploadBegin ==
    /\ pc = "Upload"
    /\ LET m == build_manifest(dir)
       IN  IF Len(m) = 0
           THEN /\ Return(Err("No files found"))
                /\ UNCHANGED << manifest, xfer >>
           ELSE /\ manifest' = m
                /\ xfer' = [i \in 1..Len(m) |-> NewTransfer]
                /\ pc' = "Uploading"
                /\ ret' = ret
    /\ next_entry' = 0
    /\ uploaded_bytes' = 0
    /\ pb_position' = 0
    /\ UNCHANGED << input, dir, staging, requests, call, surfaced, cmdVars >>

\* A poll of the buffered stream in which entry i's future makes a step and
\* stays pending.
UploadStep(i) ==
    /\ pc = "Uploading"
    /\ LET f == buffer_fill(xfer, next_entry, Concurrency)
           t == upload_file_poll(manifest[i], f.xfer[i])
       IN  /\ i \in InProgress(f.xfer)
           /\ t.phase = "writing"
           /\ xfer' = [f.xfer EXCEPT ![i] = t]
           /\ next_entry' = f.next
    /\ UNCHANGED << input, pc, ret, dir, staging, requests, manifest,
                    uploaded_bytes, pb_position, call, surfaced, cmdVars >>

\* A completing poll that adds the entry's size to the counter twice (once
\* per chunk loop exit and once on completion).
UploadComplete_CountsTwice(i) ==
    /\ pc = "Uploading"
    /\ LET f == buffer_fill(xfer, next_entry, Concurrency)
           t == upload_file_poll(manifest[i], f.xfer[i])
           new_total == uploaded_bytes + 2 * manifest[i].size
       IN  /\ i \in InProgress(f.xfer)
           /\ t.phase = "closed"
           /\ xfer' = [f.xfer EXCEPT ![i] = t]
           /\ next_entry' = f.next
           /\ uploaded_bytes' = new_total
           /\ pb_position' = Min(new_total, total_bytes(manifest))
    /\ UNCHANGED << input, pc, ret, dir, staging, requests, manifest, call,
                    surfaced, cmdVars >>

\* A poll in which entry i's future closes its writer and completes: the
\* counter grows by the entry's size and the progress bar is positioned.
UploadComplete(i) ==
    /\ pc = "Uploading"
    /\ LET f == buffer_fill(xfer, next_entry, Concurrency)
           t == upload_file_poll(manifest[i], f.xfer[i])
           new_total == uploaded_bytes + manifest[i].size
       IN  /\ i \in InProgress(f.xfer)
           /\ t.phase = "closed"
           /\ xfer' = [f.xfer EXCEPT ![i] = t]
           /\ next_entry' = f.next
           /\ uploaded_bytes' = new_total
           /\ pb_position' = Min(new_total, total_bytes(manifest))
    /\ UNCHANGED << input, pc, ret, dir, staging, requests, manifest, call,
                    surfaced, cmdVars >>

\* A poll in which entry i's future fails, ignoring the error: the entry
\* leaves the queue and the stream goes on.
UploadFail_Swallowed(i, io) ==
    /\ pc = "Uploading"
    /\ LET f == buffer_fill(xfer, next_entry, Concurrency)
       IN  /\ i \in InProgress(f.xfer)
           /\ xfer' = [f.xfer EXCEPT ![i] =
                         [f.xfer[i] EXCEPT
                            !.phase = "failed",
                            !.error = upload_file_error(manifest[i], f.xfer[i], io)]]
           /\ next_entry' = f.next
    /\ UNCHANGED << input, pc, ret, dir, staging, requests, manifest,
                    uploaded_bytes, pb_position, call, surfaced, cmdVars >>

\* A poll in which entry i's future fails and the entry is put back to be
\* transferred again.
UploadFail_Retried(i, io) ==
    /\ pc = "Uploading"
    /\ LET f == buffer_fill(xfer, next_entry, Concurrency)
       IN  /\ i \in InProgress(f.xfer)
           /\ xfer' = [f.xfer EXCEPT ![i] =
                         [@ EXCEPT !.phase = "queued", !.written = 0]]
           /\ next_entry' = f.next
    /\ UNCHANGED << input, pc, ret, dir, staging, requests, manifest,
                    uploaded_bytes, pb_position, call, surfaced, cmdVars >>

\* A poll in which entry i's future fails: try_collect returns the error,
\* the stream and the futures still in its queue are dropped, and the `?`s of
\* upload_directory and handle_build_push return it.
UploadFail(i, io) ==
    /\ pc = "Uploading"
    /\ LET f == buffer_fill(xfer, next_entry, Concurrency)
           e == upload_file_error(manifest[i], f.xfer[i], io)
       IN  /\ i \in InProgress(f.xfer)
           /\ xfer' = [j \in DOMAIN xfer |->
                         IF j = i
                         THEN [f.xfer[j] EXCEPT !.phase = "failed", !.error = e]
                         ELSE IF j \in InProgress(f.xfer)
                              THEN [f.xfer[j] EXCEPT !.phase = "dropped"]
                              ELSE f.xfer[j]]
           /\ next_entry' = f.next
           /\ Return(Err(e))
    /\ UNCHANGED << input, dir, staging, requests, manifest, uploaded_bytes,
                    pb_position, call, surfaced, cmdVars >>

\* The stream ends: try_collect returns Ok, the progress bar is finished and
\* upload_directory returns Ok.
UploadEnd ==
    /\ pc = "Uploading"
    /\ stream_done(xfer, next_entry)
    /\ pb_position' = total_bytes(manifest)
    /\ pc' = "Cleanup"
    /\ UNCHANGED << input, ret, dir, staging, requests, manifest, next_entry,
                    xfer, uploaded_bytes, call, surfaced, cmdVars >>

\* staging.cleanup()
Cleanup ==
    /\ pc = "Cleanup"
    /\ dir' = cleanup(dir, staging)
    /\ pc' = "NotifyComplete"
    /\ UNCHANGED << input, ret, staging, requests, manifest, next_entry, xfer,
                    uploaded_bytes, pb_position, call, surfaced, cmdVars >>

\* notify_upload_complete(..).await? and Ok(())
NotifyComplete ==
    /\ pc = "NotifyComplete"
    /\ \E r \in NotifyResponses :
          /\ requests' = Append(requests, "upload-completed")
          /\ Return(notify_upload_complete(r))
    /\ UNCHANGED << input, dir, staging, manifest, next_entry, xfer,
                    uploaded_bytes, pb_position, call, surfaced, cmdVars >>

Next ==
    \/ LoadConfig
    \/ Authenticate
    \/ ResolvePaths
    \/ FetchCredentials
    \/ Stage
    \/ UploadBegin
    \/ \E i \in DOMAIN xfer : UploadStep(i)
    \/ \E i \in DOMAIN xfer : UploadComplete(i)
    \/ \E i \in DOMAIN xfer, io \in {"local", "remote"} : UploadFail(i, io)
    \/ UploadEnd
    \/ Cleanup
    \/ NotifyComplete

Spec == Init /\ [][Next]_vars

-----------------------------------------------------------------------------
(* The decoding of an API error body, at every call site.                  *)

InitApi ==
    /\ input = Canonical
    /\ pc = "Done"
    /\ ret = Pending
    /\ dir = input.dir0
    /\ staging = NoStaging
    /\ requests = << >>
    /\ manifest = << >>
    /\ next_entry = 0
    /\ xfer = << >>
    /\ uploaded_bytes = 0
    /\ pb_position = 0
    /\ call \in [site : Sites, status : Statuses, body : Bodies]
    /\ surfaced = Pending
    /\ CmdIdle

\* The call site receives the response and returns.
Respond ==
    /\ surfaced = Pending
    /\ surfaced' = SiteResult(call.site, call.status, call.body)
    /\ UNCHANGED << pushVars, call, cmdVars >>

NextApi == Respond

SpecApi == InitApi /\ [][NextApi]_vars

-----------------------------------------------------------------------------
(* Properties.                                                             *)

Count(seq, r) == Cardinality({ k \in DOMAIN seq : seq[k] = r })

Issued(r) == Count(requests, r) > 0

Failed == { i \in DOMAIN xfer : xfer[i].phase = "failed" }

Closed == { i \in DOMAIN xfer : xfer[i].phase = "closed" }

\* C1: when `build push` has returned, every file FileStaging::prepare copied
\* into the upload directory has been removed again, on every exit path.
C1_StagedFilesRemovedOnReturn ==
    pc = "Done" =>
        /\ staging.config_dest # None => dir[staging.config_dest] = Absent
        /\ staging.entrypoint_dest # None =>
              dir[staging.entrypoint_dest] = Absent

\* C2: if a file transfer has failed, handle_build_push has returned an error
\* and the upload-completed request has not been and will not be issued.
C2_TransferFailureFailsPush ==
    Failed # {} =>
        /\ pc = "Done"
        /\ ~ret.ok
        /\ ~Issued("upload-completed")

\* A transfer failed after another had completed, and the push has returned.
C2_Witness ==
    /\ Failed # {}
    /\ Closed # {}
    /\ pc = "Done"

\* C3: whenever the upload-completed request has been issued, every manifest
\* entry has been transferred in full and its writer closed; no transfer is
\* pending, queued or in flight.
C3_NotifyAfterAllTransfers ==
    Issued("upload-completed") =>
        /\ Len(manifest) > 0
        /\ \A i \in DOMAIN xfer :
              /\ xfer[i].phase = "closed"
              /\ xfer[i].written = manifest[i].size

\* The request was issued for a manifest of at least three entries.
C3_Witness ==
    /\ Issued("upload-completed")
    /\ Len(manifest) >= 3

\* C4: the number of transfers in flight (started, neither finished nor
\* failed) never exceeds the uploader's concurrency.
C4_InFlightBounded ==
    Cardinality(InFlight(xfer)) <= Concurrency

\* The bound binds: as many transfers in flight as an overridden concurrency
\* allows while entries still wait in the iterator.
C4_Witness ==
    /\ input.concurrency_arg > 0
    /\ Cardinality(InFlight(xfer)) = Concurrency
    /\ next_entry < Len(manifest)

\* C5: a push whose upload directory holds no regular file ends in an error,
\* writes no object and does not issue the upload-completed request.
C5_EmptyDirectoryPushFails ==
    (pc = "Done" /\ input.upload_dir = "dir"
        /\ \A n \in Names : input.dir0[n] = Absent) =>
        /\ ~ret.ok
        /\ ~Issued("upload-completed")
        /\ Closed = {}

\* C6: once cleanup has run after prepare, the upload directory holds the
\* files, with the contents, it held before prepare.
C6_PrepareCleanupRestores ==
    (pc = "NotifyComplete" \/ Issued("upload-completed")) =>
        dir = input.dir0

\* C7: at every call site, a non-2xx response {"error": S} whose S is a JSON
\* object with a `message` field surfaces exactly that message.
C7_NestedMessageSurfaced ==
    LET env == FromStr(call.body, ApiErrorResponse)
    IN  (surfaced # Pending /\ ~is_success(call.status) /\ env.ok
            /\ FromStr(env.v.error, {"message"}).ok) =>
            surfaced = Err(ParseJson(env.v.error).str.message)

\* C8: at every call site, a non-2xx response {"error": S} whose S is not
\* JSON surfaces exactly S.
C8_RawErrorSurfaced ==
    LET env == FromStr(call.body, ApiErrorResponse)
    IN  (surfaced # Pending /\ ~is_success(call.status) /\ env.ok
            /\ ~ParseJson(env.v.error).valid) =>
            surfaced = Err(env.v.error)

\* C9: once a transfer has failed, upload_directory has returned that
\* transfer's error, and no entry that was not started is started afterwards.
C9_FailureStopsLaunching ==
    /\ [](\A i \in Failed : pc = "Done" /\ ret = Err(xfer[i].error))
    /\ [][Failed # {} =>
            \A j \in DOMAIN xfer :
                xfer[j].starts = 0 => xfer'[j].starts = 0]_vars

\* A transfer failed while one entry was in the queue, unpolled or under way,
\* and another was still in the iterator.
C9_Witness ==
    /\ Failed # {}
    /\ \E j \in DOMAIN xfer : xfer[j].phase = "dropped"
    /\ \E j \in DOMAIN xfer : xfer[j].phase = "pending"

\* C10: within one push each API request is issued at most once and each
\* manifest entry's transfer is started at most once.
C10_NoRetry ==
    /\ Count(requests, "create-temp-r2-creds") <= 1
    /\ Count(requests, "upload-completed") <= 1
    /\ \A i \in DOMAIN xfer : xfer[i].starts <= 1

\* A started transfer failed and the push is over, one request issued.
C10_Witness ==
    /\ pc = "Done"
    /\ \E i \in Failed : xfer[i].starts = 1
    /\ requests = << "create-temp-r2-creds" >>

\* The steps of handle_build_push that precede staging fail for this input.
FailsBeforeCredentials ==
    \/ ~input.readable
    \/ input.token = None
    \/ input.upload_dir # "dir"
    \/ ~engine_type(input.sections).ok

Untouched ==
    /\ dir = input.dir0
    /\ staging = NoStaging
    /\ manifest = << >>
    /\ xfer = << >>

\* C11: if LoadConfig, Authenticate, ResolvePaths or engine-kind resolution
\* fails, no request is sent, no file is staged and nothing is uploaded, and
\* the push returns an error; if FetchCredentials fails, the push returns an
\* error having staged and uploaded nothing and sent no further request; and
\* nothing happens after the push has returned.
C11_EarlyFailureHasNoLaterEffect ==
    /\ [](FailsBeforeCredentials =>
            /\ requests = << >>
            /\ Untouched
            /\ pc \in {"LoadConfig", "Authenticate", "ResolvePaths",
                       "FetchCredentials", "Done"}
            /\ pc = "Done" => ~ret.ok)
    /\ [][(pc = "FetchCredentials" /\ pc' = "Done") =>
            /\ ~ret'.ok
            /\ Untouched'
            /\ Len(requests') <= 1]_vars
    /\ [][pc = "Done" => UNCHANGED vars]_vars

\* The push has returned because the credentials request failed.
C11_Witness ==
    /\ pc = "Done"
    /\ ~ret.ok
    /\ requests = << "create-temp-r2-creds" >>
    /\ Untouched
    /\ ~FailsBeforeCredentials

\* C12: when the upload-completed request is about to be issued, the files
\* staged for the push are still in the upload directory.
C12_StagedFilesPresentAtNotify ==
    pc = "NotifyComplete" =>
        /\ staging.config_dest # None => dir[staging.config_dest] # Absent
        /\ staging.entrypoint_dest # None =>
              dir[staging.entrypoint_dest] # Absent

RECURSIVE SumClosed(_)
SumClosed(n) ==
    IF n = 0 THEN 0
    ELSE (IF xfer[n].phase = "closed" THEN manifest[n].size ELSE 0)
         + SumClosed(n - 1)

\* C17: the byte counter is the sum of the sizes of the entries whose
\* transfer completed; the progress position is min(counter, total_bytes),
\* never above total_bytes; after a successful upload it is total_bytes.
C17_CounterAndProgress ==
    /\ uploaded_bytes = SumClosed(Len(xfer))
    /\ pb_position <= total_bytes(manifest)
    /\ pc = "Uploading" =>
          pb_position = Min(uploaded_bytes, total_bytes(manifest))
    /\ (pc \in {"Cleanup", "NotifyComplete"} \/ Issued("upload-completed")) =>
          pb_position = total_bytes(manifest)

\* One transfer completed while another is under way with bytes written.
C17_Witness ==
    /\ pc = "Uploading"
    /\ Closed # {}
    /\ uploaded_bytes > 0
    /\ \E i \in InFlight(xfer) : xfer[i].written > 0

-----------------------------------------------------------------------------
(* config.rs: WavedashConfig::load, engine_type, deserialize_environment.   *)
(* Strings whose characters matter are sequences of one-character strings.  *)

\* The push is not running while another function is under study.
PushIdle ==
    /\ input = Canonical
    /\ pc = "Done"
    /\ ret = Pending
    /\ dir = input.dir0
    /\ staging = NoStaging
    /\ requests = << >>
    /\ manifest = << >>
    /\ next_entry = 0
    /\ xfer = << >>
    /\ uploaded_bytes = 0
    /\ pb_position = 0
    /\ call = NoCall
    /\ surfaced = Pending

\* Longest tail appended to a word to make an environment value.
MaxTailLen == 2

starts_with(s, p) == Len(s) >= Len(p) /\ SubSeq(s, 1, Len(p)) = p

W_production == << "p", "r", "o", "d", "u", "c", "t", "i", "o", "n" >>
W_demo == << "d", "e", "m", "o" >>
W_sandbox == << "s", "a", "n", "d", "b", "o", "x" >>
W_internal == << "i", "n", "t", "e", "r", "n", "a", "l" >>

EnvWords ==
    { W_production, W_demo, W_sandbox, W_internal,
      << >>,
      << "p", "r", "o", "d" >>,
      << "D", "e", "m", "o" >>,
      << "s", "t", "a", "g", "i", "n", "g" >> }

EnvTails == UNION { [1..n -> {"-", "x"}] : n \in 0..MaxTailLen }

\* Values of the `environment` (or `branch_slug`) key.
EnvStrings == { w \o t : w \in EnvWords, t \in EnvTails }

\* deserialize_environment
deserialize_environment(s) ==
    CASE s = W_production -> [ok |-> TRUE, v |-> "Production"]
      [] s = W_demo -> [ok |-> TRUE, v |-> "Demo"]
      [] s = W_sandbox -> [ok |-> TRUE, v |-> "Sandbox"]
      [] OTHER ->
           IF starts_with(s, W_internal)
           THEN [ok |-> TRUE, v |-> "Sandbox"]
           ELSE IF starts_with(s, W_production)
           THEN [ok |-> TRUE, v |-> "Production"]
           ELSE IF starts_with(s, W_demo)
           THEN [ok |-> TRUE, v |-> "Demo"]
           ELSE [ok |-> FALSE, v |-> "Invalid environment"]

\* A wavedash.toml on disk: whether it can be read, whether it is TOML,
\* whether org, game, environment and upload_dir are all there, the value
\* of environment, and the engine sections it holds, each complete.
Documents ==
    [readable : BOOLEAN, toml : BOOLEAN, fields : BOOLEAN,
     environment : EnvStrings, sections : SUBSET Sections]

\* WavedashConfig::load
load(doc) ==
    IF ~doc.readable
    THEN Err("Failed to read config file")
    ELSE IF ~doc.toml \/ ~doc.fields
    THEN Err("Failed to parse config file")
    ELSE LET e == deserialize_environment(doc.environment)
         IN  IF ~e.ok
             THEN Err("Failed to parse config file")
             ELSE [ok |-> TRUE, msg |-> "",
                   config |-> [environment |-> e.v,
                               sections |-> doc.sections]]

InitConfig ==
    /\ PushIdle
    /\ op \in { [name |-> "load", doc |-> d] : d \in Documents }
            \cup { [name |-> "deserialize_environment", s |-> s] :
                     s \in EnvStrings }
    /\ res = Pending
    /\ auth = NoAuth
    /\ proc = NoProc

\* WavedashConfig::load(&config_path)
Load ==
    /\ op.name = "load"
    /\ res = Pending
    /\ res' = load(op.doc)
    /\ UNCHANGED << pushVars, apiVars, op, auth, proc >>

\* config.engine_type() on a loaded configuration
EngineType ==
    /\ op.name = "load"
    /\ res # Pending
    /\ res.ok
    /\ "engine" \notin DOMAIN res
    /\ res' = [ok |-> TRUE, msg |-> "", config |-> res.config,
               engine |-> engine_type(res.config.sections)]
    /\ UNCHANGED << pushVars, apiVars, op, auth, proc >>

\* serde calls deserialize_environment on the value of the key.
DeserializeEnvironment ==
    /\ op.name = "deserialize_environment"
    /\ res = Pending
    /\ res' = deserialize_environment(op.s)
    /\ UNCHANGED << pushVars, apiVars, op, auth, proc >>

NextConfig == Load \/ EngineType \/ DeserializeEnvironment

SpecConfig == InitConfig /\ [][NextConfig]_vars

\* A document that is readable, well-formed and complete but for its engine
\* sections.
ValidButSections(doc) ==
    /\ doc.readable
    /\ doc.toml
    /\ doc.fields
    /\ doc.environment \in {W_production, W_demo, W_sandbox}

\* C13: load succeeds on a document with exactly one engine section and
\* engine_type() then returns that section's kind; on a document with zero
\* or with two or more engine sections load itself fails.
C13_LoadValidatesSections ==
    (op.name = "load" /\ res # Pending /\ ValidButSections(op.doc)) =>
        IF Cardinality(op.doc.sections) = 1
        THEN /\ res.ok
             /\ "engine" \in DOMAIN res =>
                   /\ res.engine.ok
                   /\ op.doc.sections = {res.engine.kind}
        ELSE ~res.ok

\* Legacy values of the form word-*.
Legacy(s, word) == starts_with(s, word \o << "-" >>)

\* C18: 'production', 'demo', 'sandbox' give Production, Demo, Sandbox;
\* internal-*, production-*, demo-* give Sandbox, Production, Demo; every
\* other string is rejected.
C18_EnvironmentMapping ==
    (op.name = "deserialize_environment" /\ res # Pending) =>
        CASE op.s = W_production \/ Legacy(op.s, W_production) ->
                res.ok /\ res.v = "Production"
          [] op.s = W_demo \/ Legacy(op.s, W_demo) ->
                res.ok /\ res.v = "Demo"
          [] op.s = W_sandbox \/ Legacy(op.s, W_internal) ->
                res.ok /\ res.v = "Sandbox"
          [] OTHER -> ~res.ok

-----------------------------------------------------------------------------
(* config_cmd.rs and version_cmd.rs: the validation of a build version.     *)

\* Longest version string tried.
MaxVersionLen == 7

\* u32::MAX, in decimal digits
U32_MAX == << "4", "2", "9", "4", "9", "6", "7", "2", "9", "5" >>

Digits == {"0", "1", "2", "3", "4", "5", "6", "7", "8", "9"}

DigitValue(c) ==
    CASE c = "0" -> 0 [] c = "1" -> 1 [] c = "2" -> 2 [] c = "3" -> 3
      [] c = "4" -> 4 [] c = "5" -> 5 [] c = "6" -> 6 [] c = "7" -> 7
      [] c = "8" -> 8 [] c = "9" -> 9

\* The characters version strings are made of.
VersionChars == {"1", ".", "+", "v"}

VersionStrings == UNION { [1..n -> VersionChars] : n \in 0..MaxVersionLen }

\* str::split('.')
RECURSIVE split(_)
split(s) ==
    IF \A i \in 1..Len(s) : s[i] # "."
    THEN << s >>
    ELSE LET i == CHOOSE k \in 1..Len(s) :
                     s[k] = "." /\ \A j \in 1..(k - 1) : s[j] # "."
         IN  << SubSeq(s, 1, i - 1) >> \o split(SubSeq(s, i + 1, Len(s)))

RECURSIVE DecimalValue(_)
DecimalValue(ds) ==
    IF ds = << >> THEN 0
    ELSE 10 * DecimalValue(SubSeq(ds, 1, Len(ds) - 1))
         + DigitValue(ds[Len(ds)])

\* The digits without their leading zeros.
RECURSIVE significant(_)
significant(ds) ==
    IF ds # << >> /\ ds[1] = "0" THEN significant(Tail(ds)) ELSE ds

\* The number written ds is at most u32::MAX.
fits_u32(ds) ==
    LET sig == significant(ds)
    IN  \/ Len(sig) < Len(U32_MAX)
        \/ /\ Len(sig) = Len(U32_MAX)
           /\ \/ sig = U32_MAX
              \/ \E i \in 1..Len(sig) :
                    /\ SubSeq(sig, 1, i - 1) = SubSeq(U32_MAX, 1, i - 1)
                    /\ DigitValue(sig[i]) < DigitValue(U32_MAX[i])

\* str::parse::<u32>: an optional '+', then at least one decimal digit, the
\* value at most u32::MAX.
parse_u32(p) ==
    IF p = << >> \/ p = << "+" >>
    THEN [ok |-> FALSE, v |-> 0, max |-> FALSE]
    ELSE LET ds == IF p[1] = "+" THEN Tail(p) ELSE p
         IN  IF (\A i \in 1..Len(ds) : ds[i] \in Digits) /\ fits_u32(ds)
             THEN [ok |-> TRUE, v |-> DecimalValue(ds),
                   max |-> significant(ds) = U32_MAX]
             ELSE [ok |-> FALSE, v |-> 0, max |-> FALSE]

\* handle_config_set, key "version": the validation of the value
config_set_version(value) ==
    LET parts == split(value)
    IN  IF Len(parts) # 3 \/ \E i \in 1..Len(parts) : ~parse_u32(parts[i]).ok
        THEN Err("Version must be in major.minor.patch format (e.g. 1.2.3)")
        ELSE Ok

BumpLevel == {"Patch", "Minor", "Major"}

\* handle_version_bump on the version the configuration holds: the new
\* version, as numbers. The strings tried here stay far below u32::MAX; what
\* the additions do at the component maximum is modelled by bump below.
version_bump(old_version, level) ==
    LET strs == split(old_version)
        parts == [i \in 1..Len(strs) |-> parse_u32(strs[i])]
    IN  IF \E i \in 1..Len(parts) : ~parts[i].ok
        THEN Err("Invalid version format")
        ELSE IF Len(parts) # 3
        THEN Err("Version must be in major.minor.patch format")
        ELSE LET major == parts[1]
                 minor == parts[2]
                 patch == parts[3]
                 plus_one(x) == IF x.max THEN 0 ELSE x.v + 1
             IN  [ok |-> TRUE, msg |-> "",
                  new_version |->
                    CASE level = "Patch" ->
                           << major.v, minor.v, plus_one(patch) >>
                      [] level = "Minor" -> << major.v, plus_one(minor), 0 >>
                      [] level = "Major" -> << plus_one(major), 0, 0 >>]

InitVersion ==
    /\ PushIdle
    /\ op \in { [name |-> "config_set", key |-> "version", value |-> v] :
                  v \in VersionStrings }
            \cup { [name |-> "version_bump", value |-> v, level |-> l] :
                     v \in VersionStrings, l \in BumpLevel }
    /\ res = Pending
    /\ auth = NoAuth
    /\ proc = NoProc

\* wvdsh config set version <value>
ConfigSetVersion ==
    /\ op.name = "config_set"
    /\ res = Pending
    /\ res' = config_set_version(op.value)
    /\ UNCHANGED << pushVars, apiVars, op, auth, proc >>

\* wvdsh version bump <level>
VersionBump ==
    /\ op.name = "version_bump"
    /\ res = Pending
    /\ res' = version_bump(op.value, op.level)
    /\ UNCHANGED << pushVars, apiVars, op, auth, proc >>

NextVersion == ConfigSetVersion \/ VersionBump

SpecVersion == InitVersion /\ [][NextVersion]_vars

\* ^\d+\.\d+\.\d+$ : two dots, digits everywhere else, no run empty.
MatchesVersionPattern(s) ==
    LET dots == { i \in 1..Len(s) : s[i] = "." }
    IN  /\ Cardinality(dots) = 2
        /\ \A i \in 1..Len(s) : i \notin dots => s[i] \in Digits
        /\ 1 \notin dots
        /\ Len(s) \notin dots
        /\ \A i \in dots : i + 1 \notin dots

\* C14: `config set version` and `version bump` accept a version string if
\* and only if it matches ^\d+\.\d+\.\d+$.
C14_VersionAcceptedIffPattern ==
    (op.name \in {"config_set", "version_bump"} /\ res # Pending) =>
        (res.ok <=> MatchesVersionPattern(op.value))

-----------------------------------------------------------------------------
(* uploader.rs: build_manifest over a directory tree, build_object_key.     *)
(* A file name is a sequence of characters and of bytes that are not valid  *)
(* UTF-8; an object key is a sequence of characters.                        *)

\* Longest key prefix tried.
MaxPrefixLen == 2

\* Largest file size tried.
MaxFileSize == 2

\* Bytes of a file name that are not UTF-8, and what to_string_lossy puts
\* in their place.
InvalidBytes == {"<FE>", "<FF>"}
REPLACEMENT_CHARACTER == "<U+FFFD>"

N_a == << "a" >>
N_d == << "d" >>
N_fe == << "a", "<FE>" >>
N_ff == << "a", "<FF>" >>

\* The paths a source directory may hold, relative to it, as components, in
\* the order WalkDir yields them (a directory before its contents).
TreePaths == << << N_a >>, << N_fe >>, << N_ff >>, << N_d >>, << N_d, N_a >> >>

FileKinds ==
    { [kind |-> "absent", size |-> 0], [kind |-> "symlink", size |-> 0] }
    \cup { [kind |-> "file", size |-> n] : n \in 0..MaxFileSize }

DirKinds ==
    { [kind |-> "absent", size |-> 0], [kind |-> "symlink", size |-> 0],
      [kind |-> "dir", size |-> 0] }

\* Directory trees: what is at each path; a path below d needs d to be a
\* directory (a symbolic link is never followed).
Trees ==
    { t \in [1..Len(TreePaths) ->
               FileKinds \cup DirKinds] :
        /\ \A i \in 1..Len(TreePaths) :
              IF TreePaths[i] = << N_d >>
              THEN t[i] \in DirKinds ELSE t[i] \in FileKinds
        /\ t[4].kind # "dir" => t[5].kind = "absent" }

Prefixes == UNION { [1..n -> {"p", "/"}] : n \in 0..MaxPrefixLen }

\* OsStr::to_string_lossy
to_string_lossy(name) ==
    [i \in 1..Len(name) |->
        IF name[i] \in InvalidBytes THEN REPLACEMENT_CHARACTER ELSE name[i]]

\* [..].join("/")
RECURSIVE join(_)
join(strs) ==
    IF strs = << >> THEN << >>
    ELSE IF Len(strs) = 1 THEN strs[1]
    ELSE strs[1] \o << "/" >> \o join(Tail(strs))

\* str::trim_end_matches('/')
RECURSIVE trim_end_matches(_)
trim_end_matches(s) ==
    IF s # << >> /\ s[Len(s)] = "/"
    THEN trim_end_matches(SubSeq(s, 1, Len(s) - 1)) ELSE s

\* str::trim_start_matches('/')
RECURSIVE trim_start_matches(_)
trim_start_matches(s) ==
    IF s # << >> /\ s[1] = "/" THEN trim_start_matches(Tail(s)) ELSE s

\* build_object_key
build_object_key(prefix, relative) ==
    LET relative_key ==
            join([i \in 1..Len(relative) |-> to_string_lossy(relative[i])])
    IN  IF prefix = << >>
        THEN relative_key
        ELSE trim_end_matches(prefix) \o << "/" >>
             \o trim_start_matches(relative_key)

\* The entries pushed for the paths from the i-th on.
RECURSIVE walk(_, _, _)
walk(tree, prefix, i) ==
    IF i > Len(TreePaths) THEN << >>
    ELSE IF tree[i].kind # "file"
    THEN walk(tree, prefix, i + 1)
    ELSE << [path |-> TreePaths[i],
             key |-> build_object_key(prefix, TreePaths[i]),
             size |-> tree[i].size] >>
         \o walk(tree, prefix, i + 1)

\* build_manifest(source_dir, prefix); io: a directory cannot be read, or
\* the metadata of a file cannot.
build_manifest_tree(tree, prefix, io) ==
    LET entries == walk(tree, prefix, 1)
    IN  IF io = "walk"
        THEN Err("Failed to walk directory while scanning")
        ELSE IF io = "metadata" /\ entries # << >>
        THEN Err("Failed to read metadata")
        ELSE [ok |-> TRUE, msg |-> "", entries |-> entries,
              total_bytes |-> total_bytes(entries)]

InitManifest ==
    /\ PushIdle
    /\ op \in { [name |-> "build_manifest", tree |-> t, prefix |-> p,
                 io |-> io] :
                  t \in Trees, p \in Prefixes,
                  io \in {"ok", "walk", "metadata"} }
    /\ res = Pending
    /\ auth = NoAuth
    /\ proc = NoProc

BuildManifest ==
    /\ op.name = "build_manifest"
    /\ res = Pending
    /\ res' = build_manifest_tree(op.tree, op.prefix, op.io)
    /\ UNCHANGED << pushVars, apiVars, op, auth, proc >>

NextManifest == BuildManifest

SpecManifest == InitManifest /\ [][NextManifest]_vars

RegularFiles(tree) == { i \in 1..Len(TreePaths) : tree[i].kind = "file" }

RECURSIVE SumOver(_, _)
SumOver(tree, is) ==
    IF is = {} THEN 0
    ELSE LET i == CHOOSE x \in is : TRUE
         IN  tree[i].size + SumOver(tree, is \ {i})

\* C15: for a tree with N regular files build_manifest returns N entries,
\* one per regular file and none for a directory or a symbolic link;
\* total_bytes is the sum of the files' sizes; the keys are pairwise
\* distinct, each the prefix, one '/', and the relative path joined with '/'.
C15_ManifestEntriesAndKeys ==
    (op.name = "build_manifest" /\ op.io = "ok" /\ res # Pending) =>
        /\ res.ok
        /\ Len(res.entries) = Cardinality(RegularFiles(op.tree))
        /\ { res.entries[k].path : k \in 1..Len(res.entries) }
             = { TreePaths[i] : i \in RegularFiles(op.tree) }
        /\ res.total_bytes = SumOver(op.tree, RegularFiles(op.tree))
        /\ \A i, j \in 1..Len(res.entries) :
              i # j => res.entries[i].key # res.entries[j].key
        /\ \A i \in 1..Len(res.entries) :
              res.entries[i].key
                = op.prefix \o << "/" >> \o join(res.entries[i].path)

-----------------------------------------------------------------------------
(* auth.rs: store_api_key, get_api_key, clear_credentials on a POSIX host.  *)
(* The home directory is known, so credentials_path() succeeds.             *)

\* Calls of store_api_key and clear_credentials in one run.
MaxCalls == 3

ApiKeys == {"key-1", "key-2"}

\* serde_json::to_string(&Credentials { api_key })
to_string(api_key) == << "{", "\"api_key\"", ":", api_key, "}" >>

\* serde_json::from_str::<Credentials>(&json)
from_str(json) ==
    IF /\ Len(json) = 5
       /\ json[1] = "{"
       /\ json[2] = "\"api_key\""
       /\ json[3] = ":"
       /\ json[5] = "}"
    THEN [ok |-> TRUE, v |-> [api_key |-> json[4]]]
    ELSE [ok |-> FALSE, v |-> None]

\* The modes a new directory and a new file get under the process's umask.
Umasks == {"022", "077"}
created_dir_mode(umask) == IF umask = "022" THEN "0755" ELSE "0700"
created_file_mode(umask) == IF umask = "022" THEN "0644" ELSE "0600"

NoDir == [exists |-> FALSE, mode |-> None]
NoFile == [exists |-> FALSE, content |-> << >>, mode |-> None]

\* The system calls of store_api_key that may fail.
StoreFaults ==
    {"none", "create_dir_all", "set_permissions_dir", "open", "write_all",
     "set_permissions_file"}

\* store_api_key. fault: the call that fails; part: how much of the JSON
\* is in the file when write_all fails.
store_api_key_ModesUnchecked(a, api_key, fault, part) ==
    LET json == to_string(api_key)
        dir1 == IF a.dir.exists THEN a.dir
                ELSE [exists |-> TRUE, mode |-> created_dir_mode(a.umask)]
        dir2 == IF fault = "set_permissions_dir" THEN dir1
                ELSE [dir1 EXCEPT !.mode = "0700"]
        mode1 == IF a.file.exists THEN a.file.mode
                 ELSE created_file_mode(a.umask)
        file1 == [exists |-> TRUE, content |-> json, mode |-> mode1]
        file2 == IF fault = "set_permissions_file" THEN file1
                 ELSE [file1 EXCEPT !.mode = "0600"]
    IN  IF fault = "create_dir_all"
        THEN [result |-> Err("create_dir_all"), dir |-> a.dir,
              file |-> a.file]
        ELSE IF fault = "open"
        THEN [result |-> Err("write"), dir |-> dir2, file |-> a.file]
        ELSE IF fault = "write_all"
        THEN [result |-> Err("write"), dir |-> dir2,
              file |-> [file1 EXCEPT !.content = SubSeq(json, 1, part)]]
        ELSE [result |-> Ok, dir |-> dir2, file |-> file2]

store_api_key(a, api_key, fault, part) ==
    LET json == to_string(api_key)
        dir1 == IF a.dir.exists THEN a.dir
                ELSE [exists |-> TRUE, mode |-> created_dir_mode(a.umask)]
        dir2 == [dir1 EXCEPT !.mode = "0700"]
        mode1 == IF a.file.exists THEN a.file.mode
                 ELSE created_file_mode(a.umask)
        file1 == [exists |-> TRUE, content |-> json, mode |-> mode1]
        file2 == [file1 EXCEPT !.mode = "0600"]
    IN  IF fault = "create_dir_all"
        THEN [result |-> Err("create_dir_all"), dir |-> a.dir,
              file |-> a.file]
        ELSE IF fault = "set_permissions_dir"
        THEN [result |-> Err("set_permissions"), dir |-> dir1,
              file |-> a.file]
        ELSE IF fault = "open"
        THEN [result |-> Err("write"), dir |-> dir2, file |-> a.file]
        ELSE IF fault = "write_all"
        THEN [result |-> Err("write"), dir |-> dir2,
              file |-> [file1 EXCEPT !.content = SubSeq(json, 1, part)]]
        ELSE IF fault = "set_permissions_file"
        THEN [result |-> Err("set_permissions"), dir |-> dir2,
              file |-> file1]
        ELSE [result |-> Ok, dir |-> dir2, file |-> file2]

\* get_api_key
get_api_key(a) ==
    IF ~a.file.exists
    THEN None
    ELSE LET credentials == from_str(a.file.content)
         IN  IF credentials.ok THEN credentials.v.api_key ELSE None

\* clear_credentials; fault: remove_file fails.
clear_credentials(a, fault) ==
    IF a.file.exists
    THEN IF fault
         THEN [result |-> Err("remove_file"), file |-> a.file]
         ELSE [result |-> Ok, file |-> NoFile]
    ELSE [result |-> Ok, file |-> a.file]

\* Nothing is stored; the directory may be there from an earlier run.
InitAuth ==
    /\ PushIdle
    /\ op = NoOp
    /\ res = Pending
    /\ auth \in { [umask |-> u, dir |-> d, file |-> NoFile, calls |-> << >>] :
                    u \in Umasks,
                    d \in { NoDir, [exists |-> TRUE, mode |-> "0755"],
                            [exists |-> TRUE, mode |-> "0700"] } }
    /\ proc = NoProc

StoreApiKey(api_key, fault, part) ==
    /\ Len(auth.calls) < MaxCalls
    /\ LET r == store_api_key(auth, api_key, fault, part)
       IN  auth' = [auth EXCEPT
                      !.dir = r.dir,
                      !.file = r.file,
                      !.calls = Append(@, [fn |-> "store_api_key",
                                           api_key |-> api_key,
                                           fault |-> fault,
                                           stored |-> auth.file.exists,
                                           ok |-> r.result.ok])]
    /\ UNCHANGED << pushVars, apiVars, op, res, proc >>

ClearCredentials(fault) ==
    /\ Len(auth.calls) < MaxCalls
    /\ LET r == clear_credentials(auth, fault)
       IN  auth' = [auth EXCEPT
                      !.file = r.file,
                      !.calls = Append(@, [fn |-> "clear_credentials",
                                           api_key |-> None,
                                           fault |-> IF fault
                                                     THEN "remove_file"
                                                     ELSE "none",
                                           stored |-> auth.file.exists,
                                           ok |-> r.result.ok])]
    /\ UNCHANGED << pushVars, apiVars, op, res, proc >>

GetApiKey ==
    /\ res' = [ok |-> TRUE, msg |-> "", api_key |-> get_api_key(auth)]
    /\ UNCHANGED << pushVars, apiVars, op, auth, proc >>

NextAuth ==
    \/ \E api_key \in ApiKeys, fault \in StoreFaults, part \in 0..4 :
          StoreApiKey(api_key, fault, part)
    \/ \E fault \in BOOLEAN : ClearCredentials(fault)
    \/ GetApiKey

SpecAuth == InitAuth /\ [][NextAuth]_vars

\* The calls that returned success.
Successful(calls) == { i \in 1..Len(calls) : calls[i].ok }

\* What get_api_key is to return after these calls.
Expected(calls) ==
    IF Successful(calls) = {} THEN None
    ELSE LET last == CHOOSE i \in Successful(calls) :
                        \A j \in Successful(calls) : j <= i
         IN  IF calls[last].fn = "store_api_key"
             THEN calls[last].api_key ELSE None

\* C16: after any calls of store_api_key and clear_credentials, get_api_key
\* returns the token of the last successful call if that was a store, None
\* if it was a clear or no call succeeded; and clear_credentials succeeds
\* when nothing is stored.
C16_GetReturnsLastStored ==
    auth # NoAuth =>
        /\ get_api_key(auth) = Expected(auth.calls)
        /\ \A i \in 1..Len(auth.calls) :
              (auth.calls[i].fn = "clear_credentials"
                 /\ ~auth.calls[i].stored) => auth.calls[i].ok

\* C19: when the last call, a store_api_key, returned success, the file has
\* mode 0600 and its directory mode 0700; a store_api_key in which setting
\* either mode failed returned an error.
C19_StoredWithOwnerOnlyModes ==
    auth # NoAuth =>
        /\ \A i \in 1..Len(auth.calls) :
              auth.calls[i].fault
                  \in {"set_permissions_dir", "set_permissions_file"}
                => ~auth.calls[i].ok
        /\ (/\ auth.calls # << >>
            /\ auth.calls[Len(auth.calls)].fn = "store_api_key"
            /\ auth.calls[Len(auth.calls)].ok)
              => /\ auth.file.exists
                 /\ auth.file.mode = "0600"
                 /\ auth.dir.exists
                 /\ auth.dir.mode = "0700"

\* A store succeeded on a file and a directory that had wider modes, left by
\* a store in which setting the file's mode failed.
C19_Witness ==
    /\ auth # NoAuth
    /\ Len(auth.calls) = 2
    /\ auth.umask = "022"
    /\ auth.calls[1].fault = "set_permissions_file"
    /\ auth.calls[2].fn = "store_api_key"
    /\ auth.calls[2].ok
    /\ auth.file.mode = "0600"

-----------------------------------------------------------------------------
(* main.rs: the dispatch of a parsed command and the process's exit status. *)

\* cli.command, with its action where main matches on one.
Commands ==
    {"auth login --token", "auth login", "auth logout", "auth status",
     "build push", "dev", "config set", "config", "init", "update",
     "version bump", "stats", "achievements"}

AuthCommands ==
    {"auth login --token", "auth login", "auth logout", "auth status"}

\* The commands whose arm holds a `?`: all but `auth status`.
Fallible == Commands \ {"auth status"}

\* How the background update check ends; main discards the join result.
UpdateChecks == {"finished", "panicked"}

\* The status the process exits with when main returns: 0 for Ok(()), 1
\* for Err.
main_return_AlwaysSuccess(result) == 0

main_return(result) == IF result.ok THEN 0 ELSE 1

Running(command, update_check) ==
    [pc |-> "check_for_updates", command |-> command,
     update_check |-> update_check, error |-> FALSE, exit_code |-> -1]

InitMain ==
    /\ PushIdle
    /\ op = NoOp
    /\ res = Pending
    /\ auth = NoAuth
    /\ proc \in { Running(c, u) : c \in Commands, u \in UpdateChecks }

\* The process ends with this status.
Exit(p, code) == [p EXCEPT !.pc = "exited", !.exit_code = code]

\* let update_handle = updater::check_for_updates();
CheckForUpdates ==
    /\ proc.pc = "check_for_updates"
    /\ proc' = [proc EXCEPT !.pc = "match"]
    /\ UNCHANGED << pushVars, apiVars, op, res, auth >>

\* Commands::Auth: AuthManager::new()?, which always returns Ok.
AuthManagerNew ==
    /\ proc.pc = "match"
    /\ proc.command \in AuthCommands
    /\ proc' = [proc EXCEPT !.pc = "action"]
    /\ UNCHANGED << pushVars, apiVars, op, res, auth >>

\* auth login without a token: login_with_browser(), whose error is printed
\* and ends the process with exit(1).
LoginWithBrowser(result) ==
    /\ proc.pc = "action"
    /\ proc.command = "auth login"
    /\ proc' = IF result.ok
               THEN [proc EXCEPT !.pc = "store_credentials"]
               ELSE Exit([proc EXCEPT !.error = TRUE], 1)
    /\ UNCHANGED << pushVars, apiVars, op, res, auth >>

\* The arm of the command: its handler returns, and `?` returns an error
\* from main.
Handle(result) ==
    /\ \/ proc.pc = "match" /\ proc.command \notin AuthCommands
       \/ proc.pc = "action" /\ proc.command # "auth login"
       \/ proc.pc = "store_credentials"
    /\ ~result.ok => proc.command \in Fallible
    /\ proc' = IF result.ok
               THEN [proc EXCEPT !.pc = "join"]
               ELSE Exit([proc EXCEPT !.error = TRUE], main_return(result))
    /\ UNCHANGED << pushVars, apiVars, op, res, auth >>

\* let _ = update_handle.join(); Ok(())
JoinAndReturn ==
    /\ proc.pc = "join"
    /\ proc' = Exit(proc, main_return(Ok))
    /\ UNCHANGED << pushVars, apiVars, op, res, auth >>

NextMain ==
    \/ CheckForUpdates
    \/ AuthManagerNew
    \/ \E result \in {Ok, Err("login")} : LoginWithBrowser(result)
    \/ \E result \in {Ok, Err("handler")} : Handle(result)
    \/ JoinAndReturn

SpecMain == InitMain /\ [][NextMain]_vars

\* C20: a command that ended with an error exits with a non-zero status, a
\* command that completed without error exits with status 0.
C20_ExitStatus ==
    (proc # NoProc /\ proc.pc = "exited") =>
        IF proc.error THEN proc.exit_code # 0 ELSE proc.exit_code = 0

\* build push has ended with an error propagated out of main.
C20_Witness ==
    /\ proc # NoProc
    /\ proc.pc = "exited"
    /\ proc.command = "build push"
    /\ proc.error
    /\ proc.exit_code = 1

-----------------------------------------------------------------------------
(* uploader.rs: upload_file, chunk by chunk. A file is a sequence of blocks *)
(* numbered from 1; the buffer holds BlocksPerBuffer of them                *)
(* (WRITE_BUFFER_SIZE bytes) and starts zeroed.                             *)

\* Blocks that make up WRITE_BUFFER_SIZE bytes.
BlocksPerBuffer == 2

\* Longest file tried, in blocks.
MaxBlocks == 5

FileContents == { [i \in 1..n |-> i] : n \in 0..MaxBlocks }

\* vec![0u8; WRITE_BUFFER_SIZE]
new_buffer == [i \in 1..BlocksPerBuffer |-> 0]

\* reader.read(&mut buffer) returning n: the next n blocks of the file are
\* put at the start of the buffer, the rest of it is left as it was.
read_into(buffer, content, pos, n) ==
    [i \in 1..Len(buffer) |-> IF i <= n THEN content[pos + i] ELSE buffer[i]]

\* The whole buffer handed to the writer, whatever was read.
written_chunk_WholeBuffer(buffer, bytes_read) == buffer

\* buffer[..bytes_read].to_vec()
written_chunk(buffer, bytes_read) == SubSeq(buffer, 1, bytes_read)

\* upload_file has been entered for a file with this content.
Transfer(content) ==
    [at |-> "open", content |-> content, pos |-> 0, buffer |-> new_buffer,
     bytes_read |-> 0, chunks |-> << >>, closes |-> 0, failed |-> None,
     ok |-> FALSE]

InitUpload ==
    /\ PushIdle
    /\ op = [name |-> "upload_file"]
    /\ res \in { Transfer(c) : c \in FileContents }
    /\ auth = NoAuth
    /\ proc = NoProc

\* `?` out of upload_file at the call named.
Fail(what) == res' = [res EXCEPT !.at = "returned", !.failed = what]

\* File::open(&entry.path)
OpenReader(io_ok) ==
    /\ res.at = "open"
    /\ IF io_ok THEN res' = [res EXCEPT !.at = "writer"] ELSE Fail("open")
    /\ UNCHANGED << pushVars, apiVars, op, auth, proc >>

\* operator.writer(&entry.key)
CreateWriter(io_ok) ==
    /\ res.at = "writer"
    /\ IF io_ok THEN res' = [res EXCEPT !.at = "read"] ELSE Fail("writer")
    /\ UNCHANGED << pushVars, apiVars, op, auth, proc >>

\* reader.read(&mut buffer): n blocks, at least one unless the file is at
\* its end, at most what is left and what the buffer holds; 0 breaks the
\* loop.
Read(n) ==
    /\ res.at = "read"
    /\ n <= Len(res.content) - res.pos
    /\ n <= BlocksPerBuffer
    /\ n = 0 <=> res.pos = Len(res.content)
    /\ res' = [res EXCEPT
                 !.buffer = read_into(@, res.content, res.pos, n),
                 !.pos = @ + n,
                 !.bytes_read = n,
                 !.at = IF n = 0 THEN "close" ELSE "write"]
    /\ UNCHANGED << pushVars, apiVars, op, auth, proc >>

ReadFail ==
    /\ res.at = "read"
    /\ Fail("read")
    /\ UNCHANGED << pushVars, apiVars, op, auth, proc >>

\* writer.write(buffer[..bytes_read].to_vec())
Write(io_ok) ==
    /\ res.at = "write"
    /\ IF io_ok
       THEN res' = [res EXCEPT
                      !.chunks = Append(@, written_chunk(res.buffer,
                                                         res.bytes_read)),
                      !.at = "read"]
       ELSE Fail("write")
    /\ UNCHANGED << pushVars, apiVars, op, auth, proc >>

\* writer.close(), then Ok(())
Close(io_ok) ==
    /\ res.at = "close"
    /\ res' = [res EXCEPT !.closes = @ + 1,
                          !.at = "returned",
                          !.ok = io_ok,
                          !.failed = IF io_ok THEN None ELSE "close"]
    /\ UNCHANGED << pushVars, apiVars, op, auth, proc >>

NextUpload ==
    \/ \E io_ok \in BOOLEAN : OpenReader(io_ok)
    \/ \E io_ok \in BOOLEAN : CreateWriter(io_ok)
    \/ \E n \in 0..BlocksPerBuffer : Read(n)
    \/ ReadFail
    \/ \E io_ok \in BOOLEAN : Write(io_ok)
    \/ \E io_ok \in BOOLEAN : Close(io_ok)

SpecUpload == InitUpload /\ [][NextUpload]_vars

RECURSIVE Concat(_)
Concat(chunks) ==
    IF chunks = << >> THEN << >> ELSE Head(chunks) \o Concat(Tail(chunks))

\* C21: the chunks written are non-empty, at most WRITE_BUFFER_SIZE long,
\* and concatenate in order to the file's content when upload_file
\* succeeds; the writer is closed once, after the last chunk, and never
\* when a read or a write failed.
C21_ChunksAndClose ==
    /\ [](op.name = "upload_file" =>
            /\ \A k \in 1..Len(res.chunks) :
                  /\ res.chunks[k] # << >>
                  /\ Len(res.chunks[k]) <= BlocksPerBuffer
            /\ Concat(res.chunks)
                 = SubSeq(res.content, 1, Len(Concat(res.chunks)))
            /\ res.ok => /\ Concat(res.chunks) = res.content
                         /\ res.closes = 1
            /\ res.closes <= 1
            /\ res.failed \in {"open", "writer", "read", "write"}
                  => res.closes = 0)
    /\ [][(op.name = "upload_file" /\ res.closes = 1)
             => res'.chunks = res.chunks]_vars

\* A file of several blocks went out in chunks, one of them a short read.
C21_Witness ==
    /\ op.name = "upload_file"
    /\ res.ok
    /\ Len(res.chunks) >= 3
    /\ \E k \in 1..Len(res.chunks) : Len(res.chunks[k]) < BlocksPerBuffer
    /\ \E k \in 1..Len(res.chunks) : Len(res.chunks[k]) = BlocksPerBuffer

-----------------------------------------------------------------------------
(* file_staging.rs: a failing FileStaging::prepare, within the push.        *)

\* C25: if FileStaging::prepare returns an error, the upload directory is
\* as it was before the call: no staged copy remains and no file that was
\* there has been removed.
C25_FailedPrepareLeavesDirectory ==
    [][(pc = "Stage" /\ pc' = "Done") => dir' = dir]_vars

-----------------------------------------------------------------------------
(* dev/mod.rs: handle_dev, the task that awaits Ctrl+C, and the server.     *)

DevInputs == { i \in Inputs : i.concurrency_arg = 0 }

\* handle_dev has been entered: no task spawned, no server, no signal.
DevStart ==
    [pc |-> "preflight", task |-> "none", server |-> "none",
     shutdown |-> FALSE, interrupted |-> "no", result |-> Pending]

InitDev ==
    /\ input \in DevInputs
    /\ pc = "Done"
    /\ ret = Pending
    /\ dir = input.dir0
    /\ staging = NoStaging
    /\ requests = << >>
    /\ manifest = << >>
    /\ next_entry = 0
    /\ xfer = << >>
    /\ uploaded_bytes = 0
    /\ pb_position = 0
    /\ call = NoCall
    /\ surfaced = Pending
    /\ op = NoOp
    /\ res = Pending
    /\ auth = NoAuth
    /\ proc = DevStart

devFrame == << input, pc, ret, requests, manifest, next_entry, xfer,
               uploaded_bytes, pb_position, call, surfaced, op, res, auth >>

\* `?` or bail! out of handle_dev, or its final Ok(()).
DevReturn(result) == proc' = [proc EXCEPT !.pc = "returned", !.result = result]

\* locate_html_entrypoint: index.html is the one HTML file the directory
\* may hold.
locate_html_entrypoint(d) == IF d[ENTRYPOINT] # Absent THEN ENTRYPOINT ELSE None

\* The checks before staging: the API key, the config file, upload_dir, the
\* engine kind.
DevPreflight ==
    /\ proc.pc = "preflight"
    /\ CASE input.token = None ->
               DevReturn(Err("Not authenticated. Run 'wvdsh auth login' first."))
         [] ~input.readable ->
               DevReturn(Err("Unable to find config file"))
         [] input.upload_dir # "dir" ->
               DevReturn(Err("Upload directory does not exist or is not a directory"))
         [] ~engine_type(input.sections).ok ->
               DevReturn(Err("Config must have exactly one of [godot], [unity], or [custom] sections"))
         [] OTHER -> proc' = [proc EXCEPT !.pc = "prepare"]
    /\ UNCHANGED << devFrame, dir, staging >>

\* FileStaging::prepare(..)?
DevPrepare(cfg_copy_ok, entry_copy_ok) ==
    /\ proc.pc = "prepare"
    /\ LET p == prepare(dir, input, cfg_copy_ok, entry_copy_ok)
       IN  /\ dir' = p.dir
           /\ staging' = p.staging
           /\ IF p.ok
              THEN proc' = [proc EXCEPT !.pc = "entrypoint"]
              ELSE DevReturn(Err(p.error))
    /\ UNCHANGED devFrame

\* The HTML entrypoint and its parameters, for Godot and Unity builds.
DevEntrypoint(fetch_ok) ==
    /\ proc.pc = "entrypoint"
    /\ IF engine_type(input.sections).kind = "custom"
       THEN proc' = [proc EXCEPT !.pc = "certificates"]
       ELSE IF locate_html_entrypoint(dir) = None
       THEN DevReturn(Err("No HTML file found in upload_dir"))
       ELSE IF ~fetch_ok
       THEN DevReturn(Err("Failed to call CLI entrypoint params endpoint"))
       ELSE proc' = [proc EXCEPT !.pc = "certificates"]
    /\ UNCHANGED << devFrame, dir, staging >>

\* load_or_create_certificates().await?; ensure_cert_trusted(..)?
DevCertificates(cert_ok, trust_ok) ==
    /\ proc.pc = "certificates"
    /\ IF ~cert_ok
       THEN DevReturn(Err("certificate"))
       ELSE IF ~trust_ok
       THEN DevReturn(Err("trust"))
       ELSE proc' = [proc EXCEPT !.pc = "bind"]
    /\ UNCHANGED << devFrame, dir, staging >>

\* bind_ephemeral_listener()?, build_sandbox_url(..)?, the messages, and
\* tokio::spawn of the task that awaits the signal.
DevBind(bind_ok, url_ok) ==
    /\ proc.pc = "bind"
    /\ IF ~bind_ok
       THEN DevReturn(Err("Unable to bind to an ephemeral localhost port"))
       ELSE IF ~url_ok
       THEN DevReturn(Err("sandbox url"))
       ELSE proc' = [proc EXCEPT !.pc = "serve", !.task = "spawned",
                                 !.server = "created"]
    /\ UNCHANGED << devFrame, dir, staging >>

\* The first poll of server.await: the server accepts connections.
ServerStart ==
    /\ proc.pc = "serve"
    /\ proc.server = "created"
    /\ ~proc.shutdown
    /\ proc' = [proc EXCEPT !.server = "running"]
    /\ UNCHANGED << devFrame, dir, staging >>

\* The first poll of the spawned task: signal::ctrl_c() installs the
\* handler; if it cannot, ctrl_c() returns Err and the task goes on to
\* shutdown_handle.shutdown().
InstallHandler(installed) ==
    /\ proc.pc = "serve"
    /\ proc.task = "spawned"
    /\ proc' = IF installed
               THEN [proc EXCEPT !.task = "waiting"]
               ELSE [proc EXCEPT !.task = "done", !.shutdown = TRUE]
    /\ UNCHANGED << devFrame, dir, staging >>

\* The environment sends the interrupt signal, once. With the handler
\* installed the signal is kept for the task; without it the signal's
\* default action ends the process.
Sigint ==
    /\ proc.pc = "serve"
    /\ proc.interrupted = "no"
    /\ LET when == IF proc.server = "running"
                   THEN "while running" ELSE "before running"
       IN  proc' = IF proc.task = "waiting"
                   THEN [proc EXCEPT !.interrupted = when,
                                     !.task = "signalled"]
                   ELSE [proc EXCEPT !.interrupted = when, !.pc = "killed"]
    /\ UNCHANGED << devFrame, dir, staging >>

\* ctrl_c() completes in the task: the message, shutdown_handle.shutdown().
ReceiveSignal ==
    /\ proc.pc = "serve"
    /\ proc.task = "signalled"
    /\ proc' = [proc EXCEPT !.task = "done", !.shutdown = TRUE]
    /\ UNCHANGED << devFrame, dir, staging >>

\* server.await returns Ok after the shutdown; staging.cleanup(); Ok(())
ServerStop ==
    /\ proc.pc = "serve"
    /\ proc.shutdown
    /\ dir' = cleanup(dir, staging)
    /\ proc' = [proc EXCEPT !.pc = "returned", !.server = "stopped",
                            !.result = Ok]
    /\ UNCHANGED << devFrame, staging >>

\* server.await? returns the server's error.
ServerError ==
    /\ proc.pc = "serve"
    /\ proc.server = "running"
    /\ ~proc.shutdown
    /\ proc' = [proc EXCEPT !.pc = "returned", !.server = "stopped",
                            !.result = Err("server")]
    /\ UNCHANGED << devFrame, dir, staging >>

NextDev ==
    \/ DevPreflight
    \/ \E cfg_copy_ok \in BOOLEAN, entry_copy_ok \in BOOLEAN :
          DevPrepare(cfg_copy_ok, entry_copy_ok)
    \/ \E fetch_ok \in BOOLEAN : DevEntrypoint(fetch_ok)
    \/ \E cert_ok \in BOOLEAN, trust_ok \in BOOLEAN :
          DevCertificates(cert_ok, trust_ok)
    \/ \E bind_ok \in BOOLEAN, url_ok \in BOOLEAN : DevBind(bind_ok, url_ok)
    \/ ServerStart
    \/ \E installed \in BOOLEAN : InstallHandler(installed)
    \/ Sigint
    \/ ReceiveSignal
    \/ ServerStop
    \/ ServerError

SpecDev == InitDev /\ [][NextDev]_vars

\* The runtime goes on polling the tasks that can make a step.
SpecDevLive ==
    /\ SpecDev
    /\ WF_vars(ServerStart)
    /\ WF_vars(\E installed \in BOOLEAN : InstallHandler(installed))
    /\ WF_vars(ReceiveSignal)
    /\ WF_vars(ServerStop)

StagedRemoved ==
    /\ staging.config_dest # None => dir[staging.config_dest] = Absent
    /\ staging.entrypoint_dest # None => dir[staging.entrypoint_dest] = Absent

\* C22: an interrupt signal that arrives while the preview server is
\* running leads to handle_dev returning with the server stopped and the
\* staged files removed.
C22_InterruptStopsAndCleans ==
    (proc # NoProc /\ proc.interrupted = "while running")
        ~> (/\ proc.pc = "returned"
            /\ proc.server = "stopped"
            /\ StagedRemoved)

\* C24: when handle_dev has returned, on whatever path, the files that
\* FileStaging::prepare staged have been removed from the upload directory.
C24_DevStagedFilesRemovedOnReturn ==
    (proc # NoProc /\ proc.pc = "returned") => StagedRemoved

-----------------------------------------------------------------------------
(* updater.rs: `wvdsh update` (run_update on the main thread) next to the   *)
(* background update check that main spawns, both on update-cache.json.     *)

\* Largest check_count the cache file starts with.
MaxCheckCount == 1

NoCache == [kind |-> "absent"]
EmptyCache == [kind |-> "empty"]

\* UpdateCache, as the JSON in the file
UpdateCache(show_notification, check_count, install_method) ==
    [kind |-> "json", show_notification |-> show_notification,
     check_count |-> check_count, install_method |-> install_method]

\* UpdateCache::load: None unless the file is there and parses.
UpdateCache_load(file) ==
    IF file.kind = "json" THEN [some |-> TRUE, v |-> file]
    ELSE [some |-> FALSE, v |-> NoCache]

\* The process at the start of main for `wvdsh update`.
UpdateStart(homebrew, receipt, file) ==
    [pc |-> "check_for_updates", bg |-> "unspawned", homebrew |-> homebrew,
     receipt |-> receipt, file |-> file, cache |-> NoCache, bg_cache |-> NoCache,
     acknowledged |-> FALSE, exit_code |-> -1]

InitUpdate ==
    /\ PushIdle
    /\ op = NoOp
    /\ res = Pending
    /\ auth = NoAuth
    /\ proc \in { UpdateStart(h, r, f) :
                    h \in BOOLEAN, r \in BOOLEAN,
                    f \in {NoCache}
                          \cup { UpdateCache(sn, n, "shell") :
                                   sn \in BOOLEAN, n \in 0..MaxCheckCount } }

Live == proc.pc # "exited"

\* main returns: the process exits, whatever the background thread is at.
ExitUpdate(p, result) ==
    [p EXCEPT !.pc = "exited", !.exit_code = main_return(result)]

\* updater::check_for_updates(): the cached notice, then thread::spawn.
SpawnCheck ==
    /\ proc.pc = "check_for_updates"
    /\ proc' = [proc EXCEPT !.pc = "run_update", !.bg = "start"]
    /\ UNCHANGED << pushVars, apiVars, op, res, auth >>

\* run_update up to the load of the cache.
RunUpdateLoad ==
    /\ proc.pc = "run_update"
    /\ proc' = IF proc.homebrew
               THEN ExitUpdate(proc, Err("Installed via Homebrew"))
               ELSE LET c == UpdateCache_load(proc.file)
                    IN  IF c.some
                        THEN [proc EXCEPT
                                !.cache = [c.v EXCEPT
                                             !.show_notification = FALSE],
                                !.pc = "save"]
                        ELSE [proc EXCEPT !.pc = "load_receipt"]
    /\ UNCHANGED << pushVars, apiVars, op, res, auth >>

\* cache.save(): fs::write creates or truncates the file ...
RunUpdateTruncate ==
    /\ proc.pc = "save"
    /\ proc' = [proc EXCEPT !.file = EmptyCache, !.pc = "write"]
    /\ UNCHANGED << pushVars, apiVars, op, res, auth >>

\* ... and writes the JSON.
RunUpdateWrite ==
    /\ proc.pc = "write"
    /\ proc' = [proc EXCEPT !.file = proc.cache, !.acknowledged = TRUE,
                            !.pc = "load_receipt"]
    /\ UNCHANGED << pushVars, apiVars, op, res, auth >>

\* updater.load_receipt() and updater.run().await?
RunUpdateInstall(run_ok) ==
    /\ proc.pc = "load_receipt"
    /\ proc' = IF ~proc.receipt
               THEN ExitUpdate(proc, Err("No updates available"))
               ELSE IF ~run_ok
               THEN ExitUpdate(proc, Err("updater"))
               ELSE [proc EXCEPT !.pc = "join"]
    /\ UNCHANGED << pushVars, apiVars, op, res, auth >>

\* let _ = update_handle.join(); Ok(())
JoinUpdateCheck ==
    /\ proc.pc = "join"
    /\ proc.bg = "done"
    /\ proc' = ExitUpdate(proc, Ok)
    /\ UNCHANGED << pushVars, apiVars, op, res, auth >>

\* The UpdateCache background_update_check builds: check_count from the
\* file, the rest new.
background_cache(file, show_notification, install_method) ==
    LET c == UpdateCache_load(file)
    IN  UpdateCache(show_notification,
                    (IF c.some THEN c.v.check_count ELSE 0) + 1,
                    install_method)

\* background_update_check up to the cache it is to save. found: brew info
\* or query_new_version names a version; newer: it is above the current one.
BackgroundCheck(found, newer) ==
    /\ Live
    /\ proc.bg = "start"
    /\ proc' =
         IF proc.homebrew
         THEN IF found
              THEN [proc EXCEPT
                      !.bg_cache = background_cache(proc.file, newer,
                                                    "homebrew"),
                      !.bg = "save"]
              ELSE [proc EXCEPT !.bg = "done"]
         ELSE IF proc.receipt /\ found
              THEN [proc EXCEPT
                      !.bg_cache = background_cache(proc.file, TRUE, "shell"),
                      !.bg = "save"]
              ELSE [proc EXCEPT !.bg = "done"]
    /\ UNCHANGED << pushVars, apiVars, op, res, auth >>

BackgroundTruncate ==
    /\ Live
    /\ proc.bg = "save"
    /\ proc' = [proc EXCEPT !.file = EmptyCache, !.bg = "write"]
    /\ UNCHANGED << pushVars, apiVars, op, res, auth >>

BackgroundWrite ==
    /\ Live
    /\ proc.bg = "write"
    /\ proc' = [proc EXCEPT !.file = proc.bg_cache, !.bg = "done"]
    /\ UNCHANGED << pushVars, apiVars, op, res, auth >>

NextUpdate ==
    \/ SpawnCheck
    \/ RunUpdateLoad
    \/ RunUpdateTruncate
    \/ RunUpdateWrite
    \/ \E run_ok \in BOOLEAN : RunUpdateInstall(run_ok)
    \/ JoinUpdateCheck
    \/ \E found \in BOOLEAN, newer \in BOOLEAN : BackgroundCheck(found, newer)
    \/ BackgroundTruncate
    \/ BackgroundWrite

SpecUpdate == InitUpdate /\ [][NextUpdate]_vars

\* C26: once run_update has saved the cache with show_notification = false,
\* the cache file has show_notification = false when the process exits.
C26_AcknowledgementKept ==
    (proc # NoProc /\ proc.pc = "exited" /\ proc.acknowledged) =>
        /\ proc.file.kind = "json"
        /\ ~proc.file.show_notification

-----------------------------------------------------------------------------
(* auth.rs: login_with_browser and the callback requests it is sent.        *)

\* Longest query string of a callback request, in key=value pairs.
MaxPairs == 3

\* Requests the callback server receives and passes over in one attempt.
MaxIgnored == 2

\* Values generate_state() may give.
LoginStates == {"state-1", "state-2"}

\* The key=value pairs a request's query string is made of.
QueryPairs ==
    { [key |-> "api_key", value |-> v] : v \in ApiKeys }
    \cup { [key |-> "return_url", value |-> "https://wavedash/cli"] }
    \cup { [key |-> "state", value |-> v] : v \in LoginStates }

\* Request URLs: no '?', or a query string of pairs.
Requests ==
    { [has_query |-> FALSE, query |-> << >>] }
    \cup { [has_query |-> TRUE, query |-> q] :
             q \in UNION { [1..n -> QueryPairs] : n \in 0..MaxPairs } }

\* params.get(key) on the HashMap collected from the pairs: the value of
\* the last pair with that key.
params_get(query, key) ==
    LET at == { i \in 1..Len(query) : query[i].key = key }
    IN  IF at = {} THEN None
        ELSE query[CHOOSE i \in at : \A j \in at : j <= i].value

\* The body of the loop over incoming requests: the API key the request is
\* accepted with, or None when the loop goes on to the next request.
accept(request) ==
    IF /\ request.has_query
       /\ params_get(request.query, "api_key") # None
       /\ params_get(request.query, "return_url") # None
    THEN params_get(request.query, "api_key")
    ELSE None

InitLogin ==
    /\ PushIdle
    /\ op = [name |-> "login_with_browser"]
    /\ res = [at |-> "start", state |-> None, ok |-> FALSE, api_key |-> None,
              request |-> [has_query |-> FALSE, query |-> << >>],
              ignored |-> 0]
    /\ auth = NoAuth
    /\ proc = NoProc

\* find_available_port()?, generate_state(), config::get(..)?,
\* open::that(..)?, Server::http(..)?
OpenBrowser(state, io_ok) ==
    /\ op.name = "login_with_browser"
    /\ res.at = "start"
    /\ res' = IF io_ok
              THEN [res EXCEPT !.at = "waiting", !.state = state]
              ELSE [res EXCEPT !.at = "returned", !.state = state]
    /\ UNCHANGED << pushVars, apiVars, op, auth, proc >>

\* One request of server.incoming_requests().
IncomingRequest(request) ==
    /\ op.name = "login_with_browser"
    /\ res.at = "waiting"
    /\ res.ignored < MaxIgnored \/ accept(request) # None
    /\ res' = IF accept(request) # None
              THEN [res EXCEPT !.at = "returned", !.ok = TRUE,
                               !.api_key = accept(request),
                               !.request = request]
              ELSE [res EXCEPT !.ignored = @ + 1]
    /\ UNCHANGED << pushVars, apiVars, op, auth, proc >>

\* The server stops: bail!("Server stopped unexpectedly")
ServerStopped ==
    /\ op.name = "login_with_browser"
    /\ res.at = "waiting"
    /\ res' = [res EXCEPT !.at = "returned"]
    /\ UNCHANGED << pushVars, apiVars, op, auth, proc >>

NextLogin ==
    \/ \E state \in LoginStates, io_ok \in BOOLEAN : OpenBrowser(state, io_ok)
    \/ \E request \in Requests : IncomingRequest(request)
    \/ ServerStopped

SpecLogin == InitLogin /\ [][NextLogin]_vars

\* C27: login_with_browser returns an API key only from a request whose
\* `state` parameter equals the state generated for the attempt.
C27_CallbackStateChecked ==
    (op.name = "login_with_browser" /\ res.ok) =>
        params_get(res.request.query, "state") = res.state

-----------------------------------------------------------------------------
(* version_cmd.rs: the additions of handle_version_bump on u32 components.  *)
(* A u32 is kept as two 16-bit halves, hi * 2^16 + lo.                      *)

HalfWord == 256 * 256

U32(hi, lo) == [hi |-> hi, lo |-> lo]

\* Components tried: 0, 1, 2^16 - 1, 2^32 - 2 and u32::MAX.
U32Values ==
    { U32(0, 0), U32(0, 1), U32(0, HalfWord - 1),
      U32(HalfWord - 1, HalfWord - 2), U32(HalfWord - 1, HalfWord - 1) }

\* How the build treats integer overflow: a panic with overflow checks (the
\* dev profile), two's-complement wrapping without (the release profile).
Profiles == {"overflow-checks", "wrapping"}

\* x + 1 on u32
add_one(x, profile) ==
    IF x.lo < HalfWord - 1
    THEN [panic |-> FALSE, v |-> U32(x.hi, x.lo + 1)]
    ELSE IF x.hi < HalfWord - 1
    THEN [panic |-> FALSE, v |-> U32(x.hi + 1, 0)]
    ELSE IF profile = "overflow-checks"
    THEN [panic |-> TRUE, v |-> x]
    ELSE [panic |-> FALSE, v |-> U32(0, 0)]

\* The new_version of handle_version_bump for parsed parts.
bump(parts, level, profile) ==
    LET major == parts[1]
        minor == parts[2]
        patch == parts[3]
        zero == U32(0, 0)
        sum == CASE level = "Patch" -> add_one(patch, profile)
                 [] level = "Minor" -> add_one(minor, profile)
                 [] level = "Major" -> add_one(major, profile)
    IN  IF sum.panic
        THEN [ok |-> FALSE, msg |-> "attempt to add with overflow",
              panicked |-> TRUE, new_version |-> parts]
        ELSE [ok |-> TRUE, msg |-> "", panicked |-> FALSE,
              new_version |->
                CASE level = "Patch" -> << major, minor, sum.v >>
                  [] level = "Minor" -> << major, sum.v, zero >>
                  [] level = "Major" -> << sum.v, zero, zero >>]

InitBump ==
    /\ PushIdle
    /\ op \in { [name |-> "bump", parts |-> << a, b, c >>, level |-> l,
                 profile |-> p] :
                  a \in U32Values, b \in U32Values, c \in U32Values,
                  l \in BumpLevel, p \in Profiles }
    /\ res = Pending
    /\ auth = NoAuth
    /\ proc = NoProc

\* handle_version_bump from the parsed parts to the version it writes.
Bump ==
    /\ op.name = "bump"
    /\ res = Pending
    /\ res' = bump(op.parts, op.level, op.profile)
    /\ UNCHANGED << pushVars, apiVars, op, auth, proc >>

NextBump == Bump

SpecBump == InitBump /\ [][NextBump]_vars

Less(x, y) == x.hi < y.hi \/ (x.hi = y.hi /\ x.lo < y.lo)

\* y = x + 1 as numbers
Successor(x, y) ==
    \/ y.hi = x.hi /\ y.lo = x.lo + 1
    \/ y.hi = x.hi + 1 /\ y.lo = 0 /\ x.lo = HalfWord - 1

\* C28: for every stored a.b.c, Patch gives a.b.(c+1), Minor a.(b+1).0,
\* Major (a+1).0.0, a version strictly greater than a.b.c, without a wrap
\* or a crash at the component maximum.
C28_BumpStrictlyGreater ==
    (op.name = "bump" /\ res # Pending) =>
        LET old == op.parts
            new == res.new_version
        IN  /\ res.ok
            /\ ~res.panicked
            /\ CASE op.level = "Patch" ->
                      /\ new[1] = old[1] /\ new[2] = old[2]
                      /\ Successor(old[3], new[3])
                 [] op.level = "Minor" ->
                      /\ new[1] = old[1] /\ Successor(old[2], new[2])
                      /\ new[3] = U32(0, 0)
                 [] op.level = "Major" ->
                      /\ Successor(old[1], new[1])
                      /\ new[2] = U32(0, 0) /\ new[3] = U32(0, 0)
            /\ \/ Less(old[1], new[1])
               \/ old[1] = new[1] /\ Less(old[2], new[2])
               \/ old[1] = new[1] /\ old[2] = new[2] /\ Less(old[3], new[3])

-----------------------------------------------------------------------------
(* dev/mod.rs: the CORS origin predicate of the preview server.             *)
(* A host is a sequence of text fragments; the fragments are chosen so that *)
(* a text has one decomposition only, which makes prefix, suffix and last   *)
(* character of the text those of the sequence.                             *)

MaxHostLen == 5

Fragments == {"wavedash", ".", "gg", "lvh.me", "evil", "WAVEDASH"}

Hosts == UNION { [1..n -> Fragments] : n \in 0..MaxHostLen }

\* build_cors_layer's allowed_domains: "wavedash.gg", "wavedash.lvh.me"
allowed_domains ==
    { << "wavedash", ".", "gg" >>, << "wavedash", ".", "lvh.me" >> }

\* Origin header values: bytes that are or are not visible ASCII, with the
\* scheme "https" (an authority follows), "data" (a URL without a host) or
\* none (the bare text of the host).
Schemes == {"https", "data", ""}

Origins ==
    { [visible_ascii |-> a, scheme |-> sc, host |-> h] :
        a \in BOOLEAN, sc \in Schemes, h \in Hosts }

\* str::to_ascii_lowercase on the fragments, as the URL host parser applies it
to_lowercase(host) ==
    [i \in 1..Len(host) |->
        IF host[i] = "WAVEDASH" THEN "wavedash" ELSE host[i]]

\* origin.to_str().ok().and_then(Url::parse(..).ok()).and_then(host_str):
\* the host, when the header is text, parses as a URL and has a host.
origin_host(origin) ==
    IF ~origin.visible_ascii
    THEN [some |-> FALSE, host |-> << >>]
    ELSE IF origin.scheme = ""
    THEN [some |-> FALSE, host |-> << >>]
    ELSE IF origin.scheme = "https" /\ Len(origin.host) = 0
    THEN [some |-> FALSE, host |-> << >>]
    ELSE IF origin.scheme = "data"
    THEN [some |-> FALSE, host |-> << >>]
    ELSE [some |-> TRUE, host |-> to_lowercase(origin.host)]

\* str::strip_suffix
strip_suffix(s, suffix) ==
    IF Len(s) >= Len(suffix)
        /\ SubSeq(s, Len(s) - Len(suffix) + 1, Len(s)) = suffix
    THEN [some |-> TRUE, prefix |-> SubSeq(s, 1, Len(s) - Len(suffix))]
    ELSE [some |-> FALSE, prefix |-> << >>]

\* prefix.ends_with('.')
ends_with_dot(prefix) == Len(prefix) > 0 /\ prefix[Len(prefix)] = "."

\* host_matches_domain without the test of the prefix
host_matches_domain_AnySuffix(host, domain) ==
    host = domain \/ strip_suffix(host, domain).some

host_matches_domain(host, domain) ==
    IF host = domain
    THEN TRUE
    ELSE LET stripped == strip_suffix(host, domain)
         IN  IF stripped.some THEN ends_with_dot(stripped.prefix) ELSE FALSE

host_allowed(host, domains) ==
    \E domain \in domains : host_matches_domain(host, domain)

\* The AllowOrigin predicate of build_cors_layer.
allow_origin(origin) ==
    LET h == origin_host(origin)
    IN  IF h.some THEN host_allowed(h.host, allowed_domains) ELSE FALSE

InitCors ==
    /\ PushIdle
    /\ op \in { [name |-> "cors", origin |-> o] : o \in Origins }
    /\ res = Pending
    /\ auth = NoAuth
    /\ proc = NoProc

\* The CORS layer evaluates the predicate for a request's Origin header.
CheckOrigin ==
    /\ op.name = "cors"
    /\ res = Pending
    /\ res' = [ok |-> TRUE, msg |-> "", allowed |-> allow_origin(op.origin)]
    /\ UNCHANGED << pushVars, apiVars, op, auth, proc >>

NextCors == CheckOrigin

SpecCors == InitCors /\ [][NextCors]_vars

\* s ends with t
EndsWith(s, t) ==
    \E k \in 0..Len(s) : [i \in 1..(Len(s) - k) |-> s[k + i]] = t

\* C29: an origin is allowed exactly when it parses to a host that equals
\* wavedash.gg or wavedash.lvh.me or ends with "." followed by one of them;
\* a host that ends with the domain text without the dot, and an origin that
\* cannot be parsed, are refused.
C29_CorsOriginCheck ==
    (op.name = "cors" /\ res # Pending) =>
        LET h == origin_host(op.origin)
        IN  res.allowed <=>
              /\ h.some
              /\ \E domain \in allowed_domains :
                    \/ h.host = domain
                    \/ EndsWith(h.host, << "." >> \o domain)

\* The origin https://evilwavedash.gg was checked and refused.
C29_Witness ==
    /\ op.name = "cors"
    /\ res # Pending
    /\ op.origin.visible_ascii
    /\ op.origin.scheme = "https"
    /\ op.origin.host = << "evil", "wavedash", ".", "gg" >>
    /\ ~res.allowed

-----------------------------------------------------------------------------
\* C23: the concurrency upload_directory uses is the with_concurrency
\* argument when that is above 0 and DEFAULT_CONCURRENCY (10) when it is 0,
\* so it is at least 1 and the transfers in flight stay within it.
C23_ConcurrencyAtLeastOne ==
    LET n == input.concurrency_arg
        expected == IF n > 0 THEN n ELSE DEFAULT_CONCURRENCY
    IN  /\ with_concurrency(DEFAULT_CONCURRENCY, n) = expected
        /\ Concurrency = expected
        /\ Concurrency >= 1
        /\ Cardinality(InFlight(xfer)) <= expected

\* with_concurrency(0) kept the default: more transfers are in flight than
\* an argument of 0, or the floor of 1, would allow.
C23_Witness ==
    /\ input.concurrency_arg = 0
    /\ Cardinality(InFlight(xfer)) > 1

====
